---------------------------- MODULE Spec2Model ----------------------------
(***************************************************************************)
(* State-machine model of the sketch search policy of FTuner               *)
(* (src/tvm/src/auto_scheduler/search_policy/sketch_policy.cc).            *)
(*                                                                         *)
(* One policy object is modelled.  Its fields keep the names of the        *)
(* source (measured_states_set_, measured_states_vector_, ...).  The       *)
(* module holds several specifications over the same variables:            *)
(*   SpecSample     SampleInitPopulation called repeatedly on the policy   *)
(*   FairSpecSample the same, with every enabled step eventually taken     *)
(*   Spec           Search followed by ContinueSearchOneRound calls        *)
(*   FairSpec       the same, with every enabled step eventually taken     *)
(*   SpecEff        EfficientSearch on a dynamic task                      *)
(*   SpecEvo        EvolutionarySearch                                     *)
(*                                                                         *)
(* A schedule state is a number in States; ToStr maps it to its canonical  *)
(* string (a number in 1..NumStr).  Two different states may print the     *)
(* same string, as in the source, where the string is computed after       *)
(* bound inference.                                                        *)
(***************************************************************************)
EXTENDS Integers, Sequences, FiniteSets, TLC

\* ------------------------------------------------------------------ bounds
\* number of distinct canonical strings
NumStr == 3
\* largest configured SampleInitPopulation::min_population
MaxMinPop == 3
\* largest configured EvolutionarySearch::population (parallel degree of a wave)
MaxPopulation == 2
\* largest eps_greedy, in halves, of a policy that runs Search
MaxEps2 == 1
\* most workload instances of a task that runs Search
MaxInstSearch == 1
\* saturation value of the wave counter `iter` (it only drives logging)
IterCap == 3

\* largest n_trials argument of Search
MaxTrials == 2
\* largest non-negative early_stopping argument of Search
MaxEs == 0
\* most operations called on the policy in one behaviour
MaxCalls == 2
\* largest configured min_population of a policy that runs Search
MaxMinPopSearch == 1
\* largest num_measure_per_iter / num_measure argument
MaxNpm == 2
\* largest configured empty_retry_count
MaxRetry == 1
\* longest best_states list a search round is given (never above 2 * num_measure_per_iter_)
MaxBest == 2
\* longest random_states list a search round is given (never above 3 * num_random)
MaxRand == 1
\* most workload instances of a task that runs EfficientSearch
MaxInst == 2
\* largest throughput a measurement yields
MaxThr == 1
\* longest measured pool the model lets EfficientSearch build
MaxPool == 3
\* most candidate states one EfficientSearch call measures
MaxEffCand == 2

\* longest init_population given to EvolutionarySearch
MaxInitPop == 2
\* largest out_size given to EvolutionarySearch
MaxOutSize == 2
\* largest configured EvolutionarySearch::num_iters
MaxIters == 1
\* largest cost-model score of a state in EvolutionarySearch
MaxScore == 2
\* most measured strings of the policy EvolutionarySearch is called on
MaxMeasured == 1
\* mutation_fail_ct is kept modulo MaxFailCt + 1 (it only drives logging)
MaxFailCt == 1

\* calls of GenerateSketches on one policy
MaxSketchCalls == 2
\* most stages of the task's initial state
MaxStages == 2
\* length of the policy's sketch rule list
NumRules == 2
\* successors returned by a rule that splits before a reduction factor
NumFactors == 2
\* draws from the session's random generator between two calls
MaxSeed == 1
\* largest tile entry of a config
MaxTile == 2
\* configs emitted in the runs that exercise the config ordering
OrderCands == 3
\* most candidates given to the filter pipeline in the other runs
MaxCands == 2
\* largest entry of an SM partition pair
MaxPartition == 2
\* largest occupancy coefficient (lt_ratio, gt_ratio)
MaxCoeff == 2

\* ----------------------------------------------------------------- helpers
Min(a, b) == IF a < b THEN a ELSE b

Range(s) == {s[i] : i \in 1..Len(s)}

\* sequences over S of length 0..n
SeqUpTo(S, n) == UNION {[1..len -> S] : len \in 0..n}

\* the schedule states: one more state than strings, so that two states alias
States == 1..(NumStr + 1)

\* State::ToStr(): the canonical string of a state
ToStr(s) == ((s - 1) % NumStr) + 1

\* the reject floor of the cost-model score, -1e10, scaled to the model's scores
RejectFloor == 0

VARIABLES
  \* ---- the policy's fields
  sample_init_min_pop_,        \* current sampling target
  min_population,              \* the configured parameter (never written after construction)
  population,                  \* the configured EvolutionarySearch::population
  \* ---- SampleInitPopulation's frame
  spc,                         \* "off" | "run" (in the while loop) | "ret" (returned)
  out_states,                  \* Array<State> out_states
  explored_state_strs,         \* std::unordered_set<std::string>
  unchange_cnt,
  iter,                        \* wave counter, starts at 1, saturates at IterCap
  shrunk,                      \* history: the target was reduced during this call
  accepted,                    \* history: the slot outcome behind each element of out_states
  idle_waves                   \* history: the waves since the last one that added to
                               \* out_states, counted in fives

sampVars == <<sample_init_min_pop_, min_population, population, spc, out_states, explored_state_strs,
              unchange_cnt, iter, shrunk, accepted, idle_waves>>

\* ------------------------------------------------- SampleInitPopulation
\* What one slot of a wave yields: the init rules fail on it ("invalid"), or it
\* is a state that PruneInvalidState drops ("pruned"), or a state with a
\* cost-model score (score > RejectFloor is needed for acceptance).
SlotOutcomes ==
  {[kind |-> "invalid", s |-> 0, score |-> 0], [kind |-> "pruned", s |-> 0, score |-> 0]}
    \cup [kind : {"scored"}, s : States, score : {RejectFloor, RejectFloor + 1}]

\* lines 1648-1663: the acceptance test of one scored candidate
AcceptsLowScore(o, explored) == ToStr(o.s) \notin explored

Accepts(o, explored) == o.score > RejectFloor /\ ToStr(o.s) \notin explored

\* lines 1598-1664: the candidates of a wave are visited in slot order
RECURSIVE WaveFold(_, _, _)
WaveFold(w, i, acc) ==
  IF i > Len(w) THEN acc
  ELSE IF w[i].kind = "scored" /\ Accepts(w[i], acc.explored)
       THEN WaveFold(w, i + 1,
                     [out |-> Append(acc.out, w[i].s),
                      explored |-> acc.explored \cup {ToStr(w[i].s)},
                      unchange |-> 0,
                      rec |-> Append(acc.rec, w[i])])
       ELSE WaveFold(w, i + 1, acc)

\* the target is halved after every unproductive wave
ShrinkAtOnce(target, u) == IF u >= 1 /\ target > 1 THEN target \div 2 ELSE target

\* lines 1679-1688: the target after a wave that left unchange_cnt at u
ShrinkTarget(target, u) == IF u = 5 /\ target > 1 THEN target \div 2 ELSE target

\* the target is set anew from the configured parameter at every call
TargetRestored(target) == min_population

\* lines 1541-1552: the call reads the field as the policy holds it; the
\* only assignment from the parameter is in the constructor (lines 110-111)
TargetAtEntry(target) == target

\* the entry of SampleInitPopulation: its locals are initialised (lines 1541-1551)
SampleEnter ==
  /\ spc' = "run"
  /\ out_states' = <<>>
  /\ explored_state_strs' = {}
  /\ unchange_cnt' = 0
  /\ iter' = 1
  /\ shrunk' = FALSE
  /\ accepted' = <<>>
  /\ idle_waves' = 0
  /\ sample_init_min_pop_' = TargetAtEntry(sample_init_min_pop_)
  /\ UNCHANGED <<min_population, population>>

\* one pass of the while loop of lines 1552-1690
SampleWave ==
  /\ spc = "run"
  /\ Len(out_states) < sample_init_min_pop_
  /\ \E w \in [1..population -> SlotOutcomes] :
       LET acc0 == [out |-> out_states, explored |-> explored_state_strs,
                    unchange |-> unchange_cnt + 1, rec |-> accepted]
           acc == WaveFold(w, 1, acc0)
           t == ShrinkTarget(sample_init_min_pop_, acc.unchange)
       IN /\ out_states' = acc.out
          /\ accepted' = acc.rec
          /\ explored_state_strs' = acc.explored
          /\ unchange_cnt' = IF acc.unchange = 5 THEN 0 ELSE acc.unchange
          /\ sample_init_min_pop_' = t
          /\ shrunk' = (shrunk \/ t # sample_init_min_pop_)
          /\ idle_waves' = IF Len(acc.out) > Len(out_states) THEN 0
                           ELSE (idle_waves + 1) % 5
  /\ iter' = Min(iter + 1, IterCap)
  /\ UNCHANGED <<min_population, population, spc>>

\* the loop condition of line 1552 fails: SampleInitPopulation returns out_states
SampleReturns == spc = "run" /\ ~(Len(out_states) < sample_init_min_pop_)

\* the return observed by a caller of the operation alone
SampleExit ==
  /\ SampleReturns
  /\ spc' = "ret"
  /\ UNCHANGED <<sample_init_min_pop_, min_population, population, out_states, explored_state_strs,
                 unchange_cnt, iter, shrunk, accepted, idle_waves>>

\* the caller takes the returned population; the locals of the call are gone
SampleLeave ==
  /\ spc' = "off"
  /\ out_states' = <<>>
  /\ explored_state_strs' = {}
  /\ unchange_cnt' = 0
  /\ iter' = 1
  /\ shrunk' = FALSE
  /\ accepted' = <<>>
  /\ idle_waves' = 0
  /\ UNCHANGED <<sample_init_min_pop_, min_population, population>>

\* The policy is constructed (lines 110-111) and SampleInitPopulation is called
\* on it any number of times (auto_scheduler.SketchPolicySampleInitialPopulation).
SampleCall ==
  /\ spc \in {"off", "ret"}
  /\ SampleEnter

InitSample ==
  /\ min_population \in 0..MaxMinPop
  /\ population \in 1..MaxPopulation
  /\ sample_init_min_pop_ = min_population
  /\ spc = "off"
  /\ out_states = <<>>
  /\ explored_state_strs = {}
  /\ unchange_cnt = 0
  /\ iter = 1
  /\ shrunk = FALSE
  /\ accepted = <<>>
  /\ idle_waves = 0


\* ------------------------------------------------------------- the policy
VARIABLES
  \* ---- the task and the parameters, fixed at construction
  num_insts,                   \* search_task->wkl_insts.size(); 0 for a static task
  eps2,                        \* eps_greedy in halves: 0, 1/2 or 1
  retry_param,                 \* the configured empty_retry_count
  \* ---- the policy's fields
  num_measure_per_iter_,
  measured_states_set_,
  measured_states_vector_,
  measured_states_throughputs_,
  \* ---- the measurer (external): best-so-far tracking of this workload
  best_ct,
  has_valid,
  \* ---- the frame of the running operation
  op,                          \* "none" | "search1" | "search" | "cont" | "eff"
  pc,                          \* "idle" | "loop" | "round" | "after" | "dispatch" | "ret" | "fatal" | "ub"
  n_trials,
  early_stopping,
  ct,
  empty_retry_count,
  inputs,
  results,                     \* Array<MeasureResult> results: what Measure returned last
  ext_calls,                   \* history: the calls of the measurer and of the cost model
                               \* made by the running operation, in order
  empty_rounds,                \* history: the passes in a row, up to now, whose pick was empty
  leftBy,                      \* history: how the while loop of Search was left
  calls,                       \* history: number of operations called so far
  \* ---- the dispatch stage of Search
  adapted_candidate_flops,     \* flat [num_insts x num_states], index inst * num_states + state
  changed_adapted_candidate_flops,
  next_wkl_inst_ids,
  passes,                      \* history: number of dispatch passes run by this call
  zeroed,                      \* history: flat indices set to 0 by the last pass
  \* ---- what the operation returned
  ret_states,
  ret_map,
  state_score                  \* history: the adapted scores EfficientSearch compared

VARIABLES
  \* ---- the frame of EvolutionarySearch
  epc,                         \* "off" | "score" | "mutate" | "ret"
  num_iters,                   \* the configured EvolutionarySearch::num_iters
  out_size,
  pnow,                        \* the current generation
  pnext,                       \* the next generation, under construction
  heap,                        \* the retained (state, score) items
  in_heap,                     \* std::unordered_set<std::string> in_heap
  k,                           \* generation counter
  mutation_fail_ct,            \* kept modulo MaxFailCt + 1
  sorted_heap,                 \* the heap after the final std::sort
  scored,                      \* history: the items of the generation scored last
  evicted,                     \* history: <<old score, new score>> of each replacement
  generations,                 \* history: generations scored and offered to the heap
  phases                       \* history: mutation phases ended by the swap

evoVars == <<epc, num_iters, out_size, pnow, pnext, heap, in_heap, k, mutation_fail_ct,
             sorted_heap, scored, evicted, generations, phases>>

VARIABLES
  \* ---- what GenerateSketches reads: the rule list and the task's stages
  sketch_rules,                \* the ordered rule list of the policy
  num_stages,                  \* init_state->stages.size()
  \* ---- the policy's fields GenerateSketches has no business with
  rand_gen,                    \* the state of the session's random generator
  sketch_cache_,
  \* ---- the frame of GenerateSketches
  gpc,                         \* "off" | "run" (in the while loop) | "ret" | "fatal"
  states_buf,                  \* *pnow, the frontier of the current wave
  cur_stage_id_map,
  sketches,                    \* Array<State> out_states
  waves,                       \* history: number of waves run by this call
  gcalls,                      \* history: number of calls of GenerateSketches
  prev_sketches,               \* history: what the previous call returned
  at_call                      \* history: rand_gen, sketch_cache_ and the measured set at the call

sketchVars == <<sketch_rules, num_stages, rand_gen, sketch_cache_, gpc, states_buf,
                cur_stage_id_map, sketches, waves, gcalls, prev_sketches, at_call>>

VARIABLES
  \* ---- the task
  hardware_api,                \* the hardware descriptor (with hardware_params->num_cores)
  emitted,                     \* what EmitConfig returned, each config with the state the
                               \* efficient init rules build from it
  \* ---- the frame of EfficientSearch's filter pipeline, for one workload instance
  fpc,                         \* "off" | "inst" | "occ" | "reg" | "smem" | "pad" | "sci" | "rci"
                               \* | "store" | "done"
  configs,
  cand_states,
  inst_cand_configs,
  inst_cand_states,
  filter_cand_states,          \* std::map<HwAlignedConfig, State>, as its sorted entries
  padding_penalty_threshold,   \* in steps of 0.05
  \* ---- the frame of OccupancyFilter
  states_grid_size,
  max_sm_times,
  occupancy_ratio,             \* in steps of 0.05
  \* ---- history
  filter_in_configs,           \* the input of the filter that returned last
  filter_in_states

filterVars == <<hardware_api, emitted, fpc, configs, cand_states, inst_cand_configs,
                inst_cand_states, filter_cand_states, padding_penalty_threshold,
                states_grid_size, max_sm_times, occupancy_ratio, filter_in_configs,
                filter_in_states>>

\* the stages with an operation of their own: sketch generation and the filter
\* pipeline of EfficientSearch
stageVars == <<sketchVars, filterVars>>

VARIABLES
  \* ---- the arguments of SearchTask::SearchTask, each Optional as a sequence
  \* ---- of no element (nullopt) or of one (the value)
  arg_shape_vars,
  arg_wkl_insts,
  arg_wkl_inst_weights,
  moved_from_null,             \* does std::move leave the parameter shape_vars null?
  \* ---- the frame of the constructor and the node it builds
  tpc,                         \* "off" | "new" | "task" | "fatal"
  node_shape_vars,
  node_wkl_insts,
  node_wkl_inst_weights

ctorVars == <<arg_shape_vars, arg_wkl_insts, arg_wkl_inst_weights, moved_from_null, tpc,
              node_shape_vars, node_wkl_insts, node_wkl_inst_weights>>

VARIABLES
  \* ---- what EmitConfig reads of the task: the iterators of the first stage
  \* ---- with a reduction, their extents and the accesses of its body
  dag,
  \* ---- the frame of EmitConfig
  cpc,                         \* "off" | "level" | "base" | "enum" | "ret" | "ub"
  mem_level,
  aligned_now,                 \* *pnow
  aligned_next,                \* *pnext
  base_i,                      \* the index i of the for loop over *pnow (from 0), -1 in the
                               \* branch of the all-ones base
  align_tiles,                 \* what GetAlignedTile returned for the current base
  space_ptr,                   \* positions in the lists (from 1), Len + 1 being end()
  reduce_ptr,
  emitted_configs,             \* what EmitConfig returned
  \* ---- history
  level_passes,                \* passes of the outer loop begun by this call
  handed,                      \* the tuples handed to ConfigFilter for the current base
  next_at_base                 \* the size of *pnext when the current base was started

emitVars == <<dag, cpc, mem_level, aligned_now, aligned_next, base_i, align_tiles, space_ptr,
              reduce_ptr, emitted_configs, level_passes, handed, next_at_base>>

\* the parameters of the policy
policyParams == <<num_insts, eps2, retry_param>>

\* what no operation of the policy writes: its parameters, the frame of the
\* task's construction and the frame of EmitConfig
paramVars == <<policyParams, ctorVars, emitVars>>

\* what Search, ContinueSearchOneRound and EfficientSearch never write: the
\* parameters, and the frame of EvolutionarySearch called as an operation of
\* its own
fixedVars == <<paramVars, evoVars, stageVars>>

poolVars == <<measured_states_set_, measured_states_vector_, measured_states_throughputs_>>

measurerVars == <<best_ct, has_valid>>

loopVars == <<n_trials, early_stopping, ct, empty_retry_count, inputs, results, ext_calls,
              empty_rounds, leftBy>>

dispVars == <<adapted_candidate_flops, changed_adapted_candidate_flops, next_wkl_inst_ids,
              passes, zeroed>>

retVars == <<ret_states, ret_map, state_score>>

searchVars == <<fixedVars, num_measure_per_iter_, poolVars, measurerVars, op, pc, calls,
                loopVars, dispVars, retVars>>

vars == <<sampVars, searchVars>>

\* the sampler, the pool and the frames of Search, ContinueSearchOneRound and
\* EfficientSearch
coreVars == <<sampVars, paramVars, num_measure_per_iter_, poolVars,
              measurerVars, op, pc, calls, loopVars, dispVars, retVars>>

\* everything but the frame of EvolutionarySearch
restVars == <<coreVars, stageVars>>

\* IsDynTask(search_task)
is_dyn == num_insts > 0

\* the workload instances of the task: indices 0..n-1, none for a static task
WklInsts == 0..(num_insts - 1)

Thr == 1..MaxThr

\* static_cast<int>(eps_greedy * num_measure_per_iter), lines 994-995, 1306, 1996-1997
NumRandom(npm) == (eps2 * npm) \div 2

\* std::numeric_limits<int>::max() >> 1, line 999
IntMaxHalf == 1073741823

\* ------------------------------------------------ PickStatesWithEpsGreedy
\* line 2003: the bound on the number of inputs of one call
PickLimitNoBudget(npm, remaining_n_trials) == npm

PickLimit(npm, remaining_n_trials) == Min(npm, remaining_n_trials)

\* line 2031: has the state's string been measured already?
NeverMeasured(set, s) == FALSE

AlreadyMeasured(set, s) == ToStr(s) \in set

\* lines 2003-2039; a = [ob, orr, inputs, set, vec] holds offset_best, offset_random,
\* the inputs so far, measured_states_set_ and measured_states_vector_
RECURSIVE PickLoop(_, _, _, _, _)
PickLoop(best, rand, limit, num_good, a) ==
  IF ~(Len(a.inputs) < limit) THEN a
  ELSE LET has_best == a.ob < Len(best)
           has_random == a.orr < Len(rand)
       IN IF ~has_best /\ ~has_random THEN a
          ELSE LET takeBest == IF Len(a.inputs) < num_good THEN has_best ELSE ~has_random
                   state == IF takeBest THEN best[a.ob + 1] ELSE rand[a.orr + 1]
                   a1 == [a EXCEPT !.ob = IF takeBest THEN @ + 1 ELSE @,
                                   !.orr = IF takeBest THEN @ ELSE @ + 1]
                   a2 == IF AlreadyMeasured(a.set, state) THEN a1
                         ELSE [a1 EXCEPT !.set = @ \cup {ToStr(state)},
                                         !.vec = Append(@, state),
                                         !.inputs = Append(@, state)]
               IN PickLoop(best, rand, limit, num_good, a2)

\* lines 1993-2045
PickStatesWithEpsGreedy(best, rand, remaining_n_trials) ==
  LET num_random == NumRandom(num_measure_per_iter_)
      num_good == num_measure_per_iter_ - num_random
  IN PickLoop(best, rand, PickLimit(num_measure_per_iter_, remaining_n_trials), num_good,
              [ob |-> 0, orr |-> 0, inputs |-> <<>>, set |-> measured_states_set_,
               vec |-> measured_states_vector_])

\* What SearchOneRound hands to the caller once SampleInitPopulation has
\* returned (lines 1413-1455): the output of EvolutionarySearch, at most
\* 2 * num_measure_per_iter_ states, and, when num_random_states > 0, the
\* random states drawn from the initial population.
BestLists == SeqUpTo(States, Min(2 * num_measure_per_iter_, MaxBest))

RandLists(num_random_states) == SeqUpTo(States, Min(num_random_states, MaxRand))

\* ------------------------------------------------------------------ Search
\* the calls the policy makes on the measurer and on the cost model
ResetCall == [fn |-> "Reset"]

MeasureCall(ins, res) == [fn |-> "Measure", inputs |-> ins, returned |-> res]

UpdateCall(ins, res) == [fn |-> "Update", inputs |-> ins, results |-> res]

\* the cost model is retrained at the head of every pass
UpdateAlways(calls_made) == Append(calls_made, UpdateCall(inputs, results))

\* lines 1008-1016: the cost model is retrained with the last batch when the
\* last pick was not empty
UpdateBeforeRound(calls_made) ==
  IF inputs # <<>> THEN Append(calls_made, UpdateCall(inputs, results)) ELSE calls_made

Idle == pc = "idle" /\ spc = "off" /\ calls < MaxCalls

\* the locals of Search at its entry
FrameClear ==
  /\ n_trials' = 0
  /\ early_stopping' = 0
  /\ ct' = 0
  /\ empty_retry_count' = 0
  /\ inputs' = <<>>
  /\ results' = <<>>
  /\ ext_calls' = <<>>
  /\ empty_rounds' = 0
  /\ leftBy' = "none"

DispClear ==
  /\ adapted_candidate_flops' = <<>>
  /\ next_wkl_inst_ids' = {}
  /\ passes' = 0
  /\ zeroed' = {}
  /\ UNCHANGED changed_adapted_candidate_flops

\* lines 980-1006: entry of Search.  AutoSchedule calls Search once, on a
\* policy it has just been given; the task scheduler drives a policy with
\* ContinueSearchOneRound.
CallSearchWith(trials) ==
  /\ Idle
  /\ calls = 0
  /\ calls' = calls + 1
  /\ \E n \in trials, es \in (-1)..MaxEs, npm \in 1..MaxNpm :
       /\ num_measure_per_iter_' = npm
       /\ n_trials' = n
       /\ IF n <= 1
          THEN /\ op' = "search1"
               /\ pc' = "round"
               /\ SampleEnter
               /\ UNCHANGED <<early_stopping, ct, empty_retry_count, measurerVars, ext_calls>>
          ELSE /\ op' = "search"
               /\ pc' = "loop"
               /\ early_stopping' = (IF es < 0 THEN IntMaxHalf ELSE es)
               /\ ct' = 0
               /\ empty_retry_count' = retry_param
               /\ best_ct' = 0
               /\ has_valid' = FALSE
               /\ ext_calls' = Append(ext_calls, ResetCall)
               /\ UNCHANGED sampVars
  /\ UNCHANGED <<inputs, results, empty_rounds, leftBy>>
  /\ UNCHANGED <<fixedVars, poolVars, dispVars, retVars>>

AllBestStates(best) == best

\* line 991: std::vector<State>{best_states[0]}
FirstBestState(best) == <<best[1]>>

CallSearch == CallSearchWith(1..MaxTrials)

\* lines 984-992: n_trials <= 1, SearchOneRound(0) has returned best_states
SearchNoMeasure ==
  /\ op = "search1" /\ pc = "round" /\ SampleReturns
  /\ \E best \in BestLists :
       IF Len(best) > 0
       THEN /\ pc' = "ret"
            /\ ret_states' = FirstBestState(best)
            /\ ret_map' = <<>>
            /\ UNCHANGED state_score
       ELSE /\ pc' = "fatal"
            /\ UNCHANGED retVars
  /\ SampleLeave
  /\ UNCHANGED <<fixedVars, num_measure_per_iter_, poolVars, measurerVars, op, calls,
                 loopVars, dispVars>>

\* lines 1007-1020: the head of the while loop; when ct < n_trials the cost
\* model is updated with the last batch (if any) and SearchOneRound is entered
LoopHead ==
  /\ op = "search" /\ pc = "loop"
  /\ IF ct < n_trials
     THEN /\ pc' = "round"
          /\ SampleEnter
          /\ ext_calls' = UpdateBeforeRound(ext_calls)
          /\ UNCHANGED leftBy
     ELSE /\ pc' = "after"
          /\ leftBy' = "budget"
          /\ UNCHANGED <<sampVars, ext_calls>>
  /\ UNCHANGED <<n_trials, early_stopping, ct, empty_retry_count, inputs, results,
                 empty_rounds>>
  /\ UNCHANGED <<fixedVars, num_measure_per_iter_, poolVars, measurerVars, op, calls,
                 dispVars, retVars>>

RetriesAtZero(count) == count >= 0

\* line 1058: `empty_retry_count-- > 0`, on the value before the decrement
Retries(count) == count > 0

\* the test with `>=` for `>`
EarlyStopAtEqual(newct, newbest, valid) == newct - newbest >= early_stopping /\ valid

\* line 1083-1084: the early stopping test after a measured batch
EarlyStop(newct, newbest, valid) == newct - newbest > early_stopping /\ valid

\* lines 1020-1123: the rest of one pass of the while loop, from the return of
\* SearchOneRound to the end of the body
SearchRound ==
  /\ op = "search" /\ pc = "round" /\ SampleReturns
  /\ SampleLeave
  /\ \E best \in BestLists, rand \in RandLists(3 * NumRandom(num_measure_per_iter_)) :
       LET r == PickStatesWithEpsGreedy(best, rand, n_trials - ct)
           got == Len(r.inputs)
       IN /\ inputs' = r.inputs
          /\ measured_states_set_' = r.set
          /\ measured_states_vector_' = r.vec
          /\ IF got = 0
             THEN \* lines 1057-1064
                  /\ empty_retry_count' = empty_retry_count - 1
                  /\ empty_rounds' = empty_rounds + 1
                  /\ IF Retries(empty_retry_count)
                     THEN pc' = "loop" /\ UNCHANGED leftBy
                     ELSE pc' = "after" /\ leftBy' = "empty"
                  /\ UNCHANGED <<ct, measurerVars, measured_states_throughputs_, results,
                                 ext_calls>>
             ELSE \* lines 1065-1123
                  /\ empty_retry_count' = retry_param
                  /\ empty_rounds' = 0
                  /\ ct' = ct + got
                  /\ \E res \in [1..got -> Thr], nb \in {best_ct} \cup ((ct + 1)..(ct + got)) :
                       /\ results' = res
                       /\ ext_calls' = Append(ext_calls, MeasureCall(r.inputs, res))
                       /\ best_ct' = nb
                       /\ has_valid' = (has_valid \/ nb # best_ct)
                       /\ IF EarlyStop(ct + got, nb, has_valid \/ nb # best_ct)
                          THEN /\ pc' = "after"
                               /\ leftBy' = "early"
                               /\ UNCHANGED measured_states_throughputs_
                          ELSE /\ pc' = "loop"
                               /\ UNCHANGED leftBy
                               /\ measured_states_throughputs_' =
                                    measured_states_throughputs_ \o res
  /\ UNCHANGED <<n_trials, early_stopping>>
  /\ UNCHANGED <<fixedVars, num_measure_per_iter_, op, calls, dispVars, retVars>>

\* ------------------------------------------------ the dispatch stage
\* AdaptStateToWorkload / AlignHWAdaptStateToWorkload (external): the adapted
\* score of a state for an instance is its base score, or one less when a
\* penalty applies; base maps each index of the table to the base score
AdaptedTables(base) ==
  {[d \in DOMAIN base |-> base[d] - low[d]] : low \in [DOMAIN base -> {0, 1}]}

\* TopKDispatcher::dispatch: for each instance the state (pool index, from 0)
\* with the highest adapted score, the lowest index among equals
DispatchTopK(flat, num_states) ==
  [inst \in WklInsts |->
     CHOOSE sid \in 0..(num_states - 1) :
       \A o \in 0..(num_states - 1) :
         \/ flat[inst * num_states + sid + 1] > flat[inst * num_states + o + 1]
         \/ (flat[inst * num_states + sid + 1] = flat[inst * num_states + o + 1] /\ sid <= o)]

\* the elements of a set of numbers in ascending order
RECURSIVE SortedSeq(_)
SortedSeq(S) ==
  IF S = {} THEN <<>>
  ELSE LET m == CHOOSE x \in S : \A y \in S : x <= y
       IN <<m>> \o SortedSeq(S \ {m})

\* TopKDispatcher::MapWklInstsToStates: the selected states without repetition,
\* and for each instance the index (from 0) of its state in that list
MapWklInstsToStates(raw, vec) ==
  LET ids == SortedSeq({raw[inst] : inst \in WklInsts})
  IN [states |-> [i \in 1..Len(ids) |-> vec[ids[i] + 1]],
      pool |-> ids,
      map |-> [inst \in WklInsts |-> (CHOOSE i \in 1..Len(ids) : ids[i] = raw[inst]) - 1]]

\* lines 1124-1145 and 1232-1258: the loop has been left.  A static task
\* returns the measurer's best states; a dynamic task fills the adapted-score
\* matrix, which is allocated with measured_states_throughputs_.size() columns
\* and indexed with a stride of measured_states_vector_.size(): with the two
\* lengths different, or an empty pool, the stage indexes out of bounds.
AfterLoop ==
  /\ op = "search" /\ pc = "after"
  /\ IF ~is_dyn
     THEN /\ pc' = "ret"
          /\ \E b \in SeqUpTo(Range(measured_states_vector_), 1) :
               ret_states' = (IF has_valid THEN b ELSE <<>>)
          /\ ret_map' = <<>>
          /\ UNCHANGED state_score
          /\ UNCHANGED dispVars
     ELSE IF Len(measured_states_vector_) # Len(measured_states_throughputs_)
             \/ Len(measured_states_vector_) = 0
          THEN /\ pc' = "ub"
               /\ UNCHANGED <<dispVars, retVars>>
          ELSE /\ pc' = "dispatch"
               /\ LET n == Len(measured_states_vector_)
                      base == [i \in 1..(num_insts * n) |->
                                 measured_states_throughputs_[((i - 1) % n) + 1]]
                  IN adapted_candidate_flops' \in AdaptedTables(base)
               /\ UNCHANGED <<changed_adapted_candidate_flops, next_wkl_inst_ids, passes,
                              zeroed, retVars>>
  /\ UNCHANGED <<sampVars, fixedVars, num_measure_per_iter_, poolVars, measurerVars, op, calls,
                 loopVars>>

\* line 1193: the entry cleared for a failed build of instance inst_id, whose
\* state_id is inst_id_disp_map[inst_id] (line 1182)
ZeroedIndex(inst_id, state_id, num_states) == inst_id * num_states + state_id

\* lines 1159-1220: one pass of the do-while loop: dispatch, build the state
\* of every instance of wkl_inst_ids, clear the score of each failure
DispatchPass ==
  /\ op = "search" /\ pc = "dispatch"
  /\ LET n == Len(measured_states_vector_)
         raw == DispatchTopK(adapted_candidate_flops, n)
         m == MapWklInstsToStates(raw, measured_states_vector_)
     IN \E failed \in SUBSET WklInsts :
          LET z == {ZeroedIndex(inst, m.map[inst], n) : inst \in failed}
          IN /\ adapted_candidate_flops' =
                  [i \in 1..Len(adapted_candidate_flops) |->
                     IF (i - 1) \in z THEN 0 ELSE adapted_candidate_flops[i]]
             /\ zeroed' = z
             /\ next_wkl_inst_ids' = failed
             /\ ret_states' = m.states
             /\ ret_map' = m.map
             /\ UNCHANGED state_score
  /\ passes' = passes + 1
  /\ pc' = (IF changed_adapted_candidate_flops THEN "dispatch" ELSE "ret")
  /\ UNCHANGED changed_adapted_candidate_flops
  /\ UNCHANGED <<sampVars, fixedVars, num_measure_per_iter_, poolVars, measurerVars, op, calls,
                 loopVars>>

\* the operation has returned; its caller drops the frame and the measurer
\* that was passed to it
ReturnToCaller ==
  /\ pc = "ret"
  /\ pc' = "idle"
  /\ op' = "none"
  /\ FrameClear
  /\ DispClear
  /\ ret_states' = <<>>
  /\ ret_map' = <<>>
  /\ state_score' = <<>>
  /\ best_ct' = 0
  /\ has_valid' = FALSE
  /\ UNCHANGED <<sampVars, fixedVars, num_measure_per_iter_, poolVars, calls>>

\* ------------------------------------------------ ContinueSearchOneRound
\* lines 1299-1310: entry, up to the call of SearchOneRound
CallContinue ==
  /\ Idle
  /\ calls' = calls + 1
  /\ \E nm \in 1..MaxNpm : num_measure_per_iter_' = nm
  /\ op' = "cont"
  /\ pc' = "round"
  /\ SampleEnter
  /\ UNCHANGED <<fixedVars, poolVars, measurerVars, loopVars, dispVars, retVars>>

\* lines 1325-1393: pick, measure, record the throughputs, update the model
ContinueRound ==
  /\ op = "cont" /\ pc = "round" /\ SampleReturns
  /\ SampleLeave
  /\ \E best \in BestLists, rand \in RandLists(3 * NumRandom(num_measure_per_iter_)) :
       LET r == PickStatesWithEpsGreedy(best, rand, num_measure_per_iter_)
           got == Len(r.inputs)
       IN /\ inputs' = r.inputs
          /\ measured_states_set_' = r.set
          /\ measured_states_vector_' = r.vec
          /\ \E res \in [1..got -> Thr] :
               /\ measured_states_throughputs_' = measured_states_throughputs_ \o res
               /\ results' = res
               /\ ext_calls' = ext_calls \o <<MeasureCall(r.inputs, res), UpdateCall(r.inputs, res)>>
  /\ pc' = "ret"
  /\ UNCHANGED <<n_trials, early_stopping, ct, empty_retry_count, empty_rounds, leftBy>>
  /\ UNCHANGED <<fixedVars, num_measure_per_iter_, measurerVars, op, calls, dispVars, retVars>>

\* -------------------------------------------------------- EfficientSearch
\* lines 938-965: the state chosen for one instance: the first pool index whose
\* adapted score exceeds every earlier one and 0, index 0 when none does
\* the test with `>=` for `>`
SelectsOnEqual(score_now, max_score) == score_now >= max_score

\* line 961: `state_score > max_score`
Selects(score_now, max_score) == score_now > max_score

RECURSIVE EffSelectFrom(_, _, _, _, _, _)
EffSelectFrom(score, inst, num, state_id, select_state_id, max_score) ==
  IF state_id >= num THEN select_state_id
  ELSE IF Selects(score[<<inst, state_id>>], max_score)
       THEN EffSelectFrom(score, inst, num, state_id + 1, state_id, score[<<inst, state_id>>])
       ELSE EffSelectFrom(score, inst, num, state_id + 1, select_state_id, max_score)

\* line 966: the index recorded for an instance is the length of the selected
\* list before its state is appended
EffMapAfterPush(inst_id) == inst_id + 1

EffMapIndex(inst_id) == inst_id

\* lines 752-974: the candidate states left by the filter pipeline are appended
\* to the measured pool and measured; then each instance is given a state
EfficientSearch ==
  /\ Idle
  /\ is_dyn
  /\ calls' = calls + 1
  /\ \E cand \in SeqUpTo(States, MaxEffCand) :
       /\ Len(measured_states_vector_) + Len(cand) <= MaxPool
       /\ measured_states_vector_' = measured_states_vector_ \o cand
       /\ inputs' = cand
       /\ \E res \in [1..Len(cand) -> Thr] :
            /\ measured_states_throughputs_' = measured_states_throughputs_ \o res
            /\ results' = res
            /\ ext_calls' = Append(ext_calls, MeasureCall(cand, res))
       /\ IF Len(measured_states_vector_) + Len(cand) = 0
          THEN /\ pc' = "ub"
               /\ UNCHANGED retVars
          ELSE /\ pc' = "ret"
               /\ LET num == Len(measured_states_throughputs_')
                      base == [d \in WklInsts \X (0..(num - 1)) |->
                                 measured_states_throughputs_'[d[2] + 1]]
                  IN \E score \in AdaptedTables(base) :
                       /\ ret_states' =
                            [i \in 1..num_insts |->
                               measured_states_vector_'[
                                 EffSelectFrom(score, i - 1, num, 0, 0, 0) + 1]]
                       /\ ret_map' = [inst \in WklInsts |-> EffMapIndex(inst)]
                       /\ state_score' = score
  /\ op' = "eff"
  /\ UNCHANGED <<n_trials, early_stopping, ct, empty_retry_count, empty_rounds, leftBy>>
  /\ UNCHANGED <<fixedVars, num_measure_per_iter_, measured_states_set_, measurerVars>>
  /\ UNCHANGED <<sampVars, dispVars>>


\* -------------------------------------------------- EvolutionarySearch
Scores == 1..MaxScore

\* no call of EvolutionarySearch is running
EvoOff ==
  /\ epc = "off"
  /\ out_size = 0
  /\ pnow = <<>>
  /\ pnext = <<>>
  /\ heap = {}
  /\ in_heap = {}
  /\ k = 0
  /\ mutation_fail_ct = 0
  /\ sorted_heap = <<>>
  /\ scored = <<>>
  /\ evicted = {}
  /\ generations = 0
  /\ phases = 0

\* the subsequence of s at the indices of keep, in order
RECURSIVE SubSeqAt(_, _, _)
SubSeqAt(s, keep, i) ==
  IF i > Len(s) THEN <<>>
  ELSE (IF i \in keep THEN <<s[i]>> ELSE <<>>) \o SubSeqAt(s, keep, i + 1)

\* line 1733: in_heap starts as a copy of measured_states_set_
InHeapInit(measured) == measured

\* line 1831: the heap still has room
HeapAlwaysRoom(size, out) == TRUE

HeapHasRoom(size, out) == size < out

\* line 1835: a full heap takes the state in place of its minimum
ReplacesOnTie(score, front_score) == score >= front_score

Replaces(score, front_score) == score > front_score

\* heap.front(): an item of least score (which one among equals depends on
\* the layout std::push_heap has produced)
Fronts(h) == {f \in h : \A o \in h : f.score <= o.score}

\* lines 1809-1858: the states of the generation are offered to the heap in
\* order; a = [heap, in_heap, evicted]; the result is the set of outcomes
RECURSIVE HeapFold(_, _, _, _, _)
HeapFold(pn, sc, out, i, a) ==
  IF i > Len(pn) THEN {a}
  ELSE LET item == [s |-> pn[i], score |-> sc[i]]
           str == ToStr(pn[i])
       IN IF str \in a.in_heap THEN HeapFold(pn, sc, out, i + 1, a)
          ELSE IF HeapHasRoom(Cardinality(a.heap), out)
               THEN HeapFold(pn, sc, out, i + 1,
                             [a EXCEPT !.heap = @ \cup {item}, !.in_heap = @ \cup {str}])
               ELSE UNION {IF Replaces(sc[i], f.score)
                           THEN HeapFold(pn, sc, out, i + 1,
                                  [heap |-> (a.heap \ {f}) \cup {item},
                                   in_heap |-> (a.in_heap \ {ToStr(f.s)}) \cup {str},
                                   evicted |-> a.evicted \cup {<<f.score, sc[i]>>}])
                           ELSE HeapFold(pn, sc, out, i + 1, a)
                           : f \in Fronts(a.heap)}

\* line 1964: std::sort with cmp puts higher scores first; items of equal
\* score come in any order
SortedOrders(h) ==
  {q \in [1..Cardinality(h) -> h] :
     /\ \A i, j \in 1..Cardinality(h) : i < j => q[i] # q[j]
     /\ \A i, j \in 1..Cardinality(h) : i < j => q[i].score >= q[j].score}

\* lines 1965-1967: the states of the sorted heap are what the call returns
best_states == [i \in 1..Len(sorted_heap) |-> sorted_heap[i].s]

\* lines 1701-1760: entry of EvolutionarySearch(init_population, out_size).
\* The call writes no field of the policy, so one call per behaviour is modelled.
EvoCall ==
  /\ epc = "off"
  /\ \E init_population \in SeqUpTo(States, MaxInitPop), out \in 1..MaxOutSize :
       /\ pnow' = init_population
       /\ out_size' = out
  /\ epc' = "score"
  /\ pnext' = <<>>
  /\ heap' = {}
  /\ in_heap' = InHeapInit(measured_states_set_)
  /\ k' = 0
  /\ mutation_fail_ct' = 0
  /\ sorted_heap' = <<>>
  /\ scored' = <<>>
  /\ evicted' = {}
  /\ generations' = 0
  /\ phases' = 0
  /\ UNCHANGED <<num_iters, restVars>>

\* one generation more is taken for the terminal one
LastGenerationLate(gen) == gen = num_iters + 1

\* lines 1873-1875: `if (k == num_iters) break;`
LastGeneration(gen) == gen = num_iters

\* lines 1762-1875 and 1963-1990: one generation is bound-inferred, pruned and
\* scored, and its states are offered to the heap; after the terminal
\* generation the heap is sorted and returned
EvoGeneration ==
  /\ epc = "score"
  /\ \E keep \in SUBSET (1..Len(pnow)) :
       LET kept == SubSeqAt(pnow, keep, 1)
       IN \E sc \in [1..Len(kept) -> Scores] :
            \E r \in HeapFold(kept, sc, out_size, 1,
                              [heap |-> heap, in_heap |-> in_heap, evicted |-> evicted]) :
              /\ heap' = r.heap
              /\ in_heap' = r.in_heap
              /\ evicted' = r.evicted
              /\ scored' = [i \in 1..Len(kept) |-> [s |-> kept[i], score |-> sc[i]]]
              /\ IF LastGeneration(k)
                 THEN /\ epc' = "ret"
                      /\ sorted_heap' \in SortedOrders(r.heap)
                      /\ pnow' = <<>>
                 ELSE /\ epc' = "mutate"
                      /\ pnow' = kept
                      /\ UNCHANGED sorted_heap
  /\ generations' = generations + 1
  /\ UNCHANGED <<num_iters, out_size, pnext, k, mutation_fail_ct, phases, restVars>>

\* lines 1907-1909: the rule applied to the parent returned invalid
OnInvalidMutation(next, parent) == next

\* lines 1890-1913: one pass of the mutation loop: a parent is drawn from
\* *pnow; it is copied, or mutated into another state, or the rule fails.
\* (RandomChoose over an empty generation is not part of the sources: no pass
\* is modelled for an empty *pnow.)
EvoDraw ==
  /\ epc = "mutate"
  /\ Len(pnext) < population
  /\ Len(pnow) > 0
  /\ \E i \in 1..Len(pnow) :
       \/ /\ pnext' = Append(pnext, pnow[i])
          /\ UNCHANGED mutation_fail_ct
       \/ /\ \E m \in States : pnext' = Append(pnext, m)
          /\ UNCHANGED mutation_fail_ct
       \/ /\ pnext' = OnInvalidMutation(pnext, pnow[i])
          /\ mutation_fail_ct' = (mutation_fail_ct + 1) % (MaxFailCt + 1)
  /\ UNCHANGED <<epc, num_iters, out_size, pnow, heap, in_heap, k, sorted_heap, scored,
                 evicted, generations, phases, restVars>>

\* lines 1915-1916 and the ++k of line 1762: the next generation is complete
EvoSwap ==
  /\ epc = "mutate"
  /\ ~(Len(pnext) < population)
  /\ pnow' = pnext
  /\ pnext' = <<>>
  /\ k' = k + 1
  /\ epc' = "score"
  /\ phases' = phases + 1
  /\ UNCHANGED <<num_iters, out_size, heap, in_heap, mutation_fail_ct, sorted_heap, scored,
                 evicted, generations, restVars>>

\* ---------------------------------------------------------- specification
\* a policy that has measured nothing (lines 98-109 with no preloaded records)
PoolEmpty ==
  /\ measured_states_set_ = {}
  /\ measured_states_vector_ = <<>>
  /\ measured_states_throughputs_ = <<>>

\* GenerateSketches not called: no frame, and a policy without sketch rules
SketchOff ==
  /\ gpc = "off"
  /\ states_buf = <<>>
  /\ cur_stage_id_map = <<>>
  /\ sketches = <<>>
  /\ waves = 0
  /\ gcalls = 0
  /\ prev_sketches = <<>>
  /\ at_call = <<>>

NoSketchRules ==
  /\ sketch_rules = <<>>
  /\ num_stages = 0
  /\ rand_gen = 0
  /\ sketch_cache_ = <<>>

\* the filter pipeline not entered
FilterOff ==
  /\ fpc = "off"
  /\ configs = <<>>
  /\ cand_states = <<>>
  /\ inst_cand_configs = <<>>
  /\ inst_cand_states = <<>>
  /\ filter_cand_states = <<>>
  /\ padding_penalty_threshold = 0
  /\ states_grid_size = <<>>
  /\ max_sm_times = 0
  /\ occupancy_ratio = 0
  /\ filter_in_configs = <<>>
  /\ filter_in_states = <<>>

NoHardware ==
  /\ hardware_api = <<>>
  /\ emitted = <<>>

\* no task under construction
NoConstruction ==
  /\ arg_shape_vars = <<>>
  /\ arg_wkl_insts = <<>>
  /\ arg_wkl_inst_weights = <<>>
  /\ moved_from_null = TRUE
  /\ tpc = "off"
  /\ node_shape_vars = <<>>
  /\ node_wkl_insts = <<>>
  /\ node_wkl_inst_weights = <<>>

\* no operation of the search running
NoOperation ==
  /\ num_measure_per_iter_ = 0
  /\ best_ct = 0
  /\ has_valid = FALSE
  /\ op = "none"
  /\ pc = "idle"
  /\ n_trials = 0
  /\ early_stopping = 0
  /\ ct = 0
  /\ empty_retry_count = 0
  /\ inputs = <<>>
  /\ results = <<>>
  /\ ext_calls = <<>>
  /\ empty_rounds = 0
  /\ leftBy = "none"
  /\ calls = 0
  /\ adapted_candidate_flops = <<>>
  /\ changed_adapted_candidate_flops = FALSE
  /\ next_wkl_inst_ids = {}
  /\ passes = 0
  /\ zeroed = {}
  /\ ret_states = <<>>
  /\ ret_map = <<>>
  /\ state_score = <<>>

\* EmitConfig not called
EmitOff ==
  /\ dag = <<>>
  /\ cpc = "off"
  /\ mem_level = 0
  /\ aligned_now = <<>>
  /\ aligned_next = <<>>
  /\ base_i = 0
  /\ align_tiles = <<>>
  /\ space_ptr = <<>>
  /\ reduce_ptr = <<>>
  /\ emitted_configs = <<>>
  /\ level_passes = 0
  /\ handed = <<>>
  /\ next_at_base = 0

SearchIdle == NoOperation /\ NoConstruction /\ EmitOff

\* the parameters of the policy, and no operation running
InitSearch ==
  /\ SketchOff /\ NoSketchRules
  /\ FilterOff /\ NoHardware
  /\ num_insts \in 0..MaxInst
  /\ eps2 \in 0..MaxEps2
  /\ retry_param \in 0..MaxRetry
  /\ SearchIdle

Init == InitSample /\ InitSearch /\ PoolEmpty /\ EvoOff /\ num_iters = 0
          /\ min_population <= MaxMinPopSearch /\ population = 1
          /\ num_insts <= MaxInstSearch

\* inside Search and ContinueSearchOneRound, SampleInitPopulation runs as
\* part of SearchOneRound (line 1411)
InnerSampleWave == pc = "round" /\ SampleWave /\ UNCHANGED searchVars

Next ==
  \/ CallSearch
  \/ SearchNoMeasure
  \/ LoopHead
  \/ InnerSampleWave
  \/ SearchRound
  \/ AfterLoop
  \/ DispatchPass
  \/ CallContinue
  \/ ContinueRound
  \/ ReturnToCaller

Spec == Init /\ [][Next]_vars

FairSpec == Spec /\ WF_vars(Next)

\* EfficientSearch called on a dynamic task's policy
InitEff == InitSample /\ InitSearch /\ PoolEmpty /\ EvoOff /\ num_iters = 0 /\ is_dyn /\ eps2 = 0 /\ retry_param = 0
             /\ min_population = 0 /\ population = 1

NextEff ==
  \/ EfficientSearch
  \/ ReturnToCaller

SpecEff == InitEff /\ [][NextEff]_vars

\* SampleInitPopulation as an operation of its own
InitApiSample == InitSample /\ InitSearch /\ PoolEmpty /\ EvoOff /\ num_iters = 0 /\ num_insts = 0 /\ eps2 = 0 /\ retry_param = 0

ApiSampleCall == SampleCall /\ UNCHANGED searchVars

ApiSampleWave == SampleWave /\ UNCHANGED searchVars

ApiSampleExit == SampleExit /\ UNCHANGED searchVars

NextSample ==
  \/ ApiSampleCall
  \/ ApiSampleWave
  \/ ApiSampleExit

SpecSample == InitApiSample /\ [][NextSample]_vars

FairSpecSample == SpecSample /\ WF_vars(NextSample)

\* EvolutionarySearch as an operation of its own, on a policy that has
\* measured some states already
InitEvo ==
  /\ InitSample /\ min_population = 0
  /\ InitSearch /\ num_insts = 0 /\ eps2 = 0 /\ retry_param = 0
  /\ EvoOff
  /\ num_iters \in 0..MaxIters
  /\ \E vec \in SeqUpTo(States, MaxMeasured) :
       /\ \A i, j \in 1..Len(vec) : i < j => ToStr(vec[i]) # ToStr(vec[j])
       /\ measured_states_vector_ = vec
       /\ measured_states_set_ = {ToStr(vec[i]) : i \in 1..Len(vec)}
       /\ measured_states_throughputs_ \in [1..Len(vec) -> Thr]

\* a policy whose measured states were loaded before the search
Preloaded ==
  \E vec \in SeqUpTo(States, MaxMeasured) :
    /\ \A i, j \in 1..Len(vec) : i < j => ToStr(vec[i]) # ToStr(vec[j])
    /\ measured_states_vector_ = vec
    /\ measured_states_set_ = {ToStr(vec[i]) : i \in 1..Len(vec)}
    /\ measured_states_throughputs_ \in [1..Len(vec) -> Thr]

\* Search without a measurement budget, on a preloaded policy
InitNoBudget ==
  /\ InitSample /\ InitSearch /\ eps2 = 0 /\ retry_param = 0
  /\ Preloaded /\ EvoOff /\ num_iters = 0

CallSearchNoBudget == CallSearchWith((-1)..1)

NextNoBudget ==
  \/ CallSearchNoBudget
  \/ InnerSampleWave
  \/ SearchNoMeasure
  \/ ReturnToCaller

SpecNoBudget == InitNoBudget /\ [][NextNoBudget]_vars

NextEvo ==
  \/ EvoCall
  \/ EvoGeneration
  \/ EvoDraw
  \/ EvoSwap

SpecEvo == InitEvo /\ [][NextEvo]_vars

\* EvolutionarySearch with one mutation phase, on a policy that has measured
\* nothing; the loops of the call keep running: every step of the call that
\* can be taken is taken, whatever the random draws and the rules return
InitEvoOne == InitEvo /\ num_iters = 1 /\ measured_states_vector_ = <<>>

FairSpecEvoOne ==
  /\ InitEvoOne /\ [][NextEvo]_vars
  /\ WF_vars(EvoCall) /\ WF_vars(EvoGeneration) /\ WF_vars(EvoDraw) /\ WF_vars(EvoSwap)

\* ------------------------------------------------------ GenerateSketches
\* SketchGenerationRule::ConditionKind
ConditionKinds == {"kSkip", "kApply", "kApplyAndSkipRest"}

\* The rules are objects handed to the policy (lines 143-189, 2062). What a rule
\* does when applied:
\*   "skip"    returns the state it was given, cursor one stage down
\*   "inline"  returns a new state with one more step, cursor one stage down
\*   "cache"   returns a new state with one more step, cursor unchanged; it
\*             applies at most once to a state
\*   "rfactor" returns NumFactors new states, each with a split step of one
\*             factor followed by the reduction-factor step, cursor one stage down
RuleEffects == {"skip", "inline", "cache", "rfactor"}

StageIds == 0..(MaxStages - 1)

Rules == [cond : [StageIds -> ConditionKinds], effect : RuleEffects]

\* the step kinds a rule writes
OtherStep(r, stage_id) == [kind |-> "other", rule |-> r, stage_id |-> stage_id]

SplitStep(stage_id, iter_id, extent, lengths, inner_to_outer) ==
  [kind |-> "split", stage_id |-> stage_id, iter_id |-> iter_id, extent |-> extent,
   lengths |-> lengths, inner_to_outer |-> inner_to_outer]

RfactorStep(r, stage_id) == [kind |-> "rfactor", rule |-> r, stage_id |-> stage_id]

\* a state: the object it is (obj, the derivation that allocated it), its
\* transform steps, and the derivation that led to this frontier entry (path)
init_state == [obj |-> <<>>, transform_steps |-> <<>>, path |-> <<>>]

HasStepOf(state, r) ==
  \E i \in 1..Len(state.transform_steps) :
    /\ state.transform_steps[i].kind = "other"
    /\ state.transform_steps[i].rule = r

\* rule->MeetCondition(*this, state, stage_id)
MeetCondition(r, state, stage_id) ==
  IF sketch_rules[r].effect = "cache" /\ HasStepOf(state, r)
  THEN "kSkip"
  ELSE sketch_rules[r].cond[stage_id]

Successor(state, r, n, steps) ==
  [obj |-> Append(state.path, <<r, n>>),
   transform_steps |-> state.transform_steps \o steps,
   path |-> Append(state.path, <<r, n>>)]

\* rule->Apply(*this, state, stage_id): the (state, cursor) pairs
Apply(r, state, stage_id) ==
  CASE sketch_rules[r].effect = "skip" ->
         << <<[state EXCEPT !.path = Append(@, <<r, 1>>)], stage_id - 1>> >>
    [] sketch_rules[r].effect = "inline" ->
         << <<Successor(state, r, 1, <<OtherStep(r, stage_id)>>), stage_id - 1>> >>
    [] sketch_rules[r].effect = "cache" ->
         << <<Successor(state, r, 1, <<OtherStep(r, stage_id)>>), stage_id>> >>
    [] sketch_rules[r].effect = "rfactor" ->
         [n \in 1..NumFactors |->
            <<Successor(state, r, n, <<SplitStep(stage_id, 0, NumFactors, <<n>>, TRUE),
                                       RfactorStep(r, stage_id)>>),
              stage_id - 1>>]

\* lines 1487-1491: the pairs of one rule enter the map and the next frontier
RECURSIVE PushPairs(_, _, _)
PushPairs(acc, pairs, i) ==
  IF i > Len(pairs) THEN acc
  ELSE PushPairs([acc EXCEPT !.map = (pairs[i][1].obj :> pairs[i][2]) @@ @,
                             !.next = Append(@, pairs[i][1])],
                 pairs, i + 1)

\* the rule loop without its `break`
ContinuesAlways(cond) == TRUE

\* lines 1493-1495: does the rule loop go on after a rule that applied
ContinuesAfter(cond) == cond # "kApplyAndSkipRest"

EmitAndKeep(acc, state) == [acc EXCEPT !.out = Append(@, state), !.next = Append(@, state)]

\* lines 1478-1481: a state past the first stage goes to out_states only
Emit(acc, state) == [acc EXCEPT !.out = Append(@, state)]

\* lines 1484-1497: the rules in their order, from rule r on
RECURSIVE TryRules(_, _, _, _)
TryRules(acc, state, stage_id, r) ==
  IF r > Len(sketch_rules) THEN acc
  ELSE LET cond == MeetCondition(r, state, stage_id) IN
       IF cond = "kSkip" THEN TryRules(acc, state, stage_id, r + 1)
       ELSE LET pushed == PushPairs(acc, Apply(r, state, stage_id), 1) IN
            IF ContinuesAfter(cond)
            THEN TryRules(pushed, state, stage_id, r + 1)
            ELSE pushed

\* lines 1474-1498: the states of the frontier in their order, from entry i on
RECURSIVE ExpandFrontier(_, _, _)
ExpandFrontier(acc, now, i) ==
  IF i > Len(now) THEN acc
  ELSE LET state == now[i]
           stage_id == acc.map[state.obj]
       IN  IF stage_id < 0
           THEN ExpandFrontier(Emit(acc, state), now, i + 1)
           ELSE ExpandFrontier(TryRules(acc, state, stage_id, 1), now, i + 1)

\* the checks of lines 1513 and 1516: a reduction-factor step is not the first
\* step and the step before it is a split
ChecksPass(steps) ==
  \A step_id \in 1..Len(steps) :
    steps[step_id].kind = "rfactor" => step_id >= 2 /\ steps[step_id - 1].kind = "split"

\* lines 1511-1521 for one state whose checks pass: the split before each
\* reduction-factor step loses its factor
RECURSIVE RewriteSplits(_, _)
RewriteSplits(steps, step_id) ==
  IF step_id > Len(steps) THEN steps
  ELSE IF steps[step_id].kind # "rfactor" THEN RewriteSplits(steps, step_id + 1)
  ELSE LET step == steps[step_id - 1] IN
       RewriteSplits([steps EXCEPT ![step_id - 1] =
                        SplitStep(step.stage_id, step.iter_id, step.extent, <<"NullOpt">>,
                                  step.inner_to_outer)],
                     step_id + 1)

\* the rewrite with `false` for step->inner_to_outer
PostPassOuterToInner(out) ==
  [i \in 1..Len(out) |->
     LET steps == RewriteSplits(out[i].transform_steps, 1) IN
       [out[i] EXCEPT !.transform_steps =
          [s \in 1..Len(steps) |->
             IF steps[s].kind = "split" THEN [steps[s] EXCEPT !.inner_to_outer = FALSE]
             ELSE steps[s]]]]

\* lines 1502-1523: every state of out_states is rewritten in its place
PostPass(out) ==
  [i \in 1..Len(out) |->
     [out[i] EXCEPT !.transform_steps = RewriteSplits(@, 1)]]

FirstCursorSeeded == num_stages - 1 - rand_gen

\* line 1468: the cursor of the initial state is its last stage
FirstCursor == num_stages - 1

\* lines 1459-1471
GenerateSketchesCall ==
  /\ gpc \in {"off", "ret"}
  /\ gcalls < MaxSketchCalls
  /\ gpc' = "run"
  /\ gcalls' = gcalls + 1
  /\ states_buf' = <<init_state>>
  /\ cur_stage_id_map' = (init_state.obj :> FirstCursor)
  /\ prev_sketches' = sketches
  /\ sketches' = <<>>
  /\ waves' = 0
  /\ at_call' = <<rand_gen, sketch_cache_, measured_states_set_>>
  /\ UNCHANGED <<sketch_rules, num_stages, rand_gen, sketch_cache_, coreVars, evoVars, filterVars>>

\* lines 1472-1500: one pass of the while loop
GenerateSketchesWave ==
  /\ gpc = "run"
  /\ states_buf # <<>>
  /\ LET acc == ExpandFrontier([map |-> cur_stage_id_map, next |-> <<>>, out |-> sketches],
                               states_buf, 1)
     IN  /\ states_buf' = acc.next
         /\ cur_stage_id_map' = acc.map
         /\ sketches' = acc.out
  /\ waves' = waves + 1
  /\ UNCHANGED <<sketch_rules, num_stages, rand_gen, sketch_cache_, gpc, gcalls, prev_sketches,
                 at_call, coreVars, evoVars, filterVars>>

\* lines 1502-1526: the loop is left, the post-pass runs, the frame is dropped
GenerateSketchesReturn ==
  /\ gpc = "run"
  /\ states_buf = <<>>
  /\ IF \A i \in 1..Len(sketches) : ChecksPass(sketches[i].transform_steps)
     THEN gpc' = "ret" /\ sketches' = PostPass(sketches)
     ELSE gpc' = "fatal" /\ UNCHANGED sketches
  /\ cur_stage_id_map' = <<>>
  /\ UNCHANGED <<sketch_rules, num_stages, rand_gen, sketch_cache_, states_buf, waves, gcalls,
                 prev_sketches, at_call, coreVars, evoVars, filterVars>>

\* lines 1406-1408: SearchOneRound keeps the sketches it was returned (taken
\* between two calls)
SketchCacheFill ==
  /\ gpc = "ret"
  /\ gcalls < MaxSketchCalls
  /\ sketch_cache_ = <<>>
  /\ sketch_cache_' = sketches
  /\ UNCHANGED <<sketch_rules, num_stages, rand_gen, gpc, states_buf, cur_stage_id_map,
                 sketches, waves, gcalls, prev_sketches, at_call, coreVars, evoVars, filterVars>>

\* line 1546: the sampler draws a seed from the session's generator (taken
\* between two calls)
SeedDraw ==
  /\ gpc = "ret"
  /\ gcalls < MaxSketchCalls
  /\ rand_gen < MaxSeed
  /\ rand_gen' = rand_gen + 1
  /\ UNCHANGED <<sketch_rules, num_stages, sketch_cache_, gpc, states_buf, cur_stage_id_map,
                 sketches, waves, gcalls, prev_sketches, at_call, coreVars, evoVars, filterVars>>

InitSketch ==
  /\ InitSample /\ min_population = 0 /\ population = 1
  /\ num_insts = 0 /\ eps2 = 0 /\ retry_param = 0
  /\ SearchIdle
  /\ EvoOff /\ num_iters = 0
  /\ \E vec \in SeqUpTo({1}, 1) :
       /\ measured_states_vector_ = vec
       /\ measured_states_set_ = {ToStr(vec[i]) : i \in 1..Len(vec)}
       /\ measured_states_throughputs_ = [i \in 1..Len(vec) |-> 1]
  /\ FilterOff /\ NoHardware
  /\ SketchOff
  /\ sketch_rules \in [1..NumRules -> Rules]
  /\ num_stages \in 1..MaxStages
  /\ rand_gen = 0
  /\ sketch_cache_ = <<>>

NextSketch ==
  \/ GenerateSketchesCall
  \/ GenerateSketchesWave
  \/ GenerateSketchesReturn
  \/ SketchCacheFill
  \/ SeedDraw

SpecSketch == InitSketch /\ [][NextSketch]_vars

\* ------------------------------------- the filter pipeline of EfficientSearch
\* 0.95, the first threshold of both relaxation loops, and the unit 0.05 it is
\* lowered by: thresholds are counted in twentieths
OccupancyStart == 19

PaddingStart == 19

RatioUnits == 20

\* the first threshold below zero, 0.95 - 20 * 0.05: every penalty passes it
\* and every lower one alike
RatioFloor == OccupancyStart - RatioUnits

\* `threshold -= 0.05` (line 181 of the filters, line 832): the thresholds
\* below RatioFloor are all represented by RatioFloor and the one after it, so
\* that a loop that keeps lowering keeps taking steps
Lower(threshold) == IF threshold >= RatioFloor THEN threshold - 1 ELSE RatioFloor

\* the literals of RegisterLaunchBoundsFilter
ReduceDivisor == 16

RegPerThreadLimit == 255

DeepSchedule == 7

\* the literals of the compute-intensity filters
SmemKeep == 20

RegKeep == 10

\* utils.h: floor_div rounds the quotient up, floor_by rounds a up to a multiple of b
floor_div(a, b) == (a + b - 1) \div b

floor_by(a, b) == floor_div(a, b) * b

RECURSIVE Product(_)
Product(lengths) ==
  IF lengths = <<>> THEN 1 ELSE Head(lengths) * Product(Tail(lengths))

\* lines 124-140 of the filters: the product, over the split steps of three
\* factors, of the extent divided by the product of the factors
RECURSIVE GridSizeFrom(_, _)
GridSizeFrom(steps, i) ==
  IF i > Len(steps) THEN 1
  ELSE (IF steps[i].kind = "split" /\ Len(steps[i].lengths) = 3
        THEN floor_div(steps[i].extent, Product(steps[i].lengths))
        ELSE 1) * GridSizeFrom(steps, i + 1)

GridSize(state) == GridSizeFrom(state.transform_steps, 1)

\* lines 67-82 of PaddingFilter: the product, over the split steps of two or
\* three factors, of extent / floor_by(extent, product of the factors), as the
\* fraction <<numerator, denominator>>
RECURSIVE PaddingFrom(_, _)
PaddingFrom(steps, i) ==
  IF i > Len(steps) THEN <<1, 1>>
  ELSE LET rest == PaddingFrom(steps, i + 1) IN
       IF steps[i].kind = "split" /\ Len(steps[i].lengths) \in {2, 3}
       THEN <<steps[i].extent * rest[1],
              floor_by(steps[i].extent, Product(steps[i].lengths)) * rest[2]>>
       ELSE rest

PaddingPenalty(state) == PaddingFrom(state.transform_steps, 1)

\* `penalty > threshold` of lines 83 and 165, for a positive fraction and a
\* threshold in twentieths. The threshold is 0.95 lowered by 0.05 in binary
\* floating point, so that on exact equality the test goes either way (tie).
Exceeds(ratio, threshold, tie) ==
  \/ RatioUnits * ratio[1] > threshold * ratio[2]
  \/ tie /\ RatioUnits * ratio[1] = threshold * ratio[2]

\* the elements of list at the positions idx, in the order of idx
Select(list, idx) == [n \in 1..Len(idx) |-> list[idx[n]]]

\* lines 27-29 of ThreadsNumberFilter
ThreadsValid(config) ==
  config.threads_num
    % (hardware_api.warp_size * hardware_api.compute_sm_partition[2]) = 0

\* lines 157-162 of OccupancyFilter, as the fraction <<numerator, denominator>>
OccupancyPenalty(grid_size) ==
  LET coeff == IF grid_size < hardware_api.num_cores
               THEN hardware_api.lt_ratio
               ELSE hardware_api.gt_ratio
  IN  <<coeff * grid_size,
        (coeff - 1) * grid_size + floor_by(grid_size, hardware_api.num_cores)>>

\* lines 156-178: the candidates of one SM multiple that pass, in input order
OccupancyKept(sm_times, tie) ==
  SortedSeq({i \in 1..Len(states_grid_size) :
               /\ floor_div(states_grid_size[i], hardware_api.glbmem_sm_partition[1]) = sm_times
               /\ Exceeds(OccupancyPenalty(states_grid_size[i]), occupancy_ratio, tie)})

\* lines 154-180: the inner while loop, from sm_times up to max_sm_times
RECURSIVE OccupancyWindow(_, _)
OccupancyWindow(sm_times, tie) ==
  IF sm_times > max_sm_times THEN <<>>
  ELSE OccupancyKept(sm_times, tie) \o OccupancyWindow(sm_times + 1, tie)

\* lines 231-233 and 301-303
BlocksInSm(state) ==
  Min(hardware_api.smem_sm_partition[2],
      floor_div(GridSize(state), hardware_api.smem_sm_partition[1]))

\* line 194
SchBase(states) == IF states[1].stages > DeepSchedule THEN 2 ELSE 1

RegisterValidPerSmOnly(config, state, sch_base) ==
  BlocksInSm(state) * config.threads_num
    * (ReduceDivisor * config.single_thread_reg_usage
       + config.single_thread_reg_usage * config.reduce_tiles[1][1])
  < ReduceDivisor * hardware_api.max_reg_per_sm

\* lines 234-246, both sides multiplied by 16
RegisterValid(config, state, sch_base) ==
  /\ BlocksInSm(state) * config.threads_num
       * (ReduceDivisor * config.single_thread_reg_usage
          + config.single_thread_reg_usage * config.reduce_tiles[1][1])
     < ReduceDivisor * hardware_api.max_reg_per_sm
  /\ ReduceDivisor * config.single_thread_reg_usage * sch_base
       + config.single_thread_reg_usage * config.reduce_tiles[1][1]
     < ReduceDivisor * RegPerThreadLimit

SharedMemoryValidAtLimit(config, state) ==
  BlocksInSm(state) * config.smem_usage <= hardware_api.max_smem_usage_per_sm

\* lines 304-311
SharedMemoryValid(config, state) ==
  /\ BlocksInSm(state) * config.smem_usage < hardware_api.max_smem_usage_per_sm
  /\ ~(BlocksInSm(state) * config.smem_usage > hardware_api.max_smem_usage_per_sm)

\* the loop over valid_states from its last index down
ValidPositionsDescending(valid_states) ==
  LET up == SortedSeq({i \in 1..Len(valid_states) : valid_states[i]})
  IN  [n \in 1..Len(up) |-> up[Len(up) + 1 - n]]

\* lines 89-96, 248-255 and 313-320: the positions marked valid, ascending
ValidPositions(valid_states) == SortedSeq({i \in 1..Len(valid_states) : valid_states[i]})

\* std::sort with cmp_compute_ratio (lines 344-348, 397-401): the orders of
\* the positions in which the ratio of the level never increases, built from
\* the front (a position of the largest ratio left, then the rest)
RECURSIVE OrdersOf(_, _, _)
OrdersOf(cfgs, level, rest) ==
  IF rest = {} THEN {<<>>}
  ELSE UNION {{<<i>> \o tail : tail \in OrdersOf(cfgs, level, rest \ {i})} :
                i \in {j \in rest :
                         \A m \in rest : cfgs[j].compute_intensive_ratio[level]
                                            >= cfgs[m].compute_intensive_ratio[level]}}

\* the filters without their std::sort: the positions as they come
InputOrder(cfgs, level) == {[i \in 1..Len(cfgs) |-> i]}

DescendingOrders(cfgs, level) == OrdersOf(cfgs, level, 1..Len(cfgs))

\* the entries of a vector of vectors, row by row
RECURSIVE Flat(_)
Flat(tiles) == IF tiles = <<>> THEN <<>> ELSE Head(tiles) \o Flat(Tail(tiles))

\* one of the two loop nests of operator<: "lt" where it returns true, "gt"
\* where it returns false, "eq" where it falls through
RECURSIVE CompareFrom(_, _, _)
CompareFrom(x, y, i) ==
  IF i > Len(x) THEN "eq"
  ELSE IF x[i] < y[i] THEN "lt"
  ELSE IF x[i] > y[i] THEN "gt"
  ELSE CompareFrom(x, y, i + 1)

LessSpaceOnly(a, b) == CompareFrom(Flat(a.space_tiles), Flat(b.space_tiles), 1) = "lt"

\* HwAlignedConfig::operator<
Less(a, b) ==
  LET space == CompareFrom(Flat(a.space_tiles), Flat(b.space_tiles), 1) IN
  IF space = "lt" THEN TRUE
  ELSE IF space = "gt" THEN FALSE
  ELSE CompareFrom(Flat(a.reduce_tiles), Flat(b.reduce_tiles), 1) = "lt"

\* the equivalence std::map derives from its comparison
Equivalent(a, b) == ~Less(a, b) /\ ~Less(b, a)

\* line 864: filter_cand_states[key] = value
MapAssign(m, key, value) ==
  IF \E j \in 1..Len(m) : Equivalent(m[j].key, key)
  THEN [j \in 1..Len(m) |->
          IF Equivalent(m[j].key, key) THEN [m[j] EXCEPT !.value = value] ELSE m[j]]
  ELSE LET pos == Cardinality({j \in 1..Len(m) : Less(m[j].key, key)}) IN
       SubSeq(m, 1, pos) \o <<[key |-> key, value |-> value]>> \o SubSeq(m, pos + 1, Len(m))

\* lines 863-867
RECURSIVE MapAssignAll(_, _, _, _)
MapAssignAll(m, cfgs, sts, i) ==
  IF i > Len(cfgs) THEN m
  ELSE MapAssignAll(MapAssign(m, cfgs[i], sts[i]), cfgs, sts, i + 1)

\* what the pipeline steps never write
pipeFixed == <<coreVars, evoVars, sketchVars, hardware_api, emitted>>

\* lines 777-803: ThreadsNumberFilter, then the states of the configs it kept
EffCandidates ==
  /\ fpc = "off"
  /\ LET idx == ValidPositions([i \in 1..Len(emitted) |-> ThreadsValid(emitted[i].config)])
     IN  /\ configs' = Select([i \in 1..Len(emitted) |-> emitted[i].config], idx)
         /\ cand_states' = Select([i \in 1..Len(emitted) |-> emitted[i].state], idx)
  /\ filter_in_configs' = [i \in 1..Len(emitted) |-> emitted[i].config]
  /\ filter_in_states' = [i \in 1..Len(emitted) |-> emitted[i].state]
  /\ fpc' = "inst"
  /\ UNCHANGED <<inst_cand_configs, inst_cand_states, filter_cand_states,
                 padding_penalty_threshold, states_grid_size, max_sm_times, occupancy_ratio,
                 pipeFixed>>

\* lines 806-810 and lines 100-152 of the filters: the instance's pass starts
\* and OccupancyFilter is entered
OccupancyCall ==
  /\ fpc = "inst"
  /\ states_grid_size' = [i \in 1..Len(cand_states) |-> GridSize(cand_states[i])]
  /\ LET max_grid_size ==
           IF cand_states = <<>> THEN 0
           ELSE CHOOSE g \in {GridSize(cand_states[i]) : i \in 1..Len(cand_states)} :
                  \A i \in 1..Len(cand_states) : GridSize(cand_states[i]) <= g
     IN  max_sm_times' = floor_div(max_grid_size, hardware_api.glbmem_sm_partition[1])
  /\ occupancy_ratio' = OccupancyStart
  /\ inst_cand_configs' = <<>>
  /\ inst_cand_states' = <<>>
  /\ filter_in_configs' = configs
  /\ filter_in_states' = cand_states
  /\ fpc' = "occ"
  /\ UNCHANGED <<configs, cand_states, filter_cand_states, padding_penalty_threshold, pipeFixed>>

\* lines 153-183: one pass of the outer while loop of OccupancyFilter; the
\* filter returns when the pass kept something
OccupancyPass ==
  /\ fpc = "occ"
  /\ \E tie \in BOOLEAN :
       LET idx == OccupancyWindow(hardware_api.smem_sm_partition[2], tie) IN
       IF idx # <<>>
       THEN /\ inst_cand_configs' = Select(configs, idx)
            /\ inst_cand_states' = Select(cand_states, idx)
            /\ fpc' = "reg"
            /\ UNCHANGED occupancy_ratio
       ELSE /\ occupancy_ratio' = Lower(occupancy_ratio)
            /\ UNCHANGED <<inst_cand_configs, inst_cand_states, fpc>>
  /\ UNCHANGED <<configs, cand_states, filter_cand_states, padding_penalty_threshold,
                 states_grid_size, max_sm_times, filter_in_configs, filter_in_states, pipeFixed>>

\* lines 811-813 and 186-257; cand_states[0] of an empty vector is undefined
RegisterLaunchBoundsFilter ==
  /\ fpc = "reg"
  /\ IF inst_cand_states = <<>>
     THEN /\ fpc' = "ub"
          /\ UNCHANGED <<inst_cand_configs, inst_cand_states>>
     ELSE LET sch_base == SchBase(inst_cand_states)
              idx == ValidPositions([i \in 1..Len(inst_cand_configs) |->
                        RegisterValid(inst_cand_configs[i], inst_cand_states[i], sch_base)])
          IN  /\ inst_cand_configs' = Select(inst_cand_configs, idx)
              /\ inst_cand_states' = Select(inst_cand_states, idx)
              /\ fpc' = "smem"
  /\ filter_in_configs' = inst_cand_configs
  /\ filter_in_states' = inst_cand_states
  /\ UNCHANGED <<configs, cand_states, filter_cand_states, padding_penalty_threshold,
                 states_grid_size, max_sm_times, occupancy_ratio, pipeFixed>>

\* lines 815-819 and 259-322
SharedMemoryLaunchBoundsFilter ==
  /\ fpc = "smem"
  /\ LET idx == ValidPositions([i \in 1..Len(inst_cand_configs) |->
                   SharedMemoryValid(inst_cand_configs[i], inst_cand_states[i])])
     IN  /\ inst_cand_configs' = Select(inst_cand_configs, idx)
         /\ inst_cand_states' = Select(inst_cand_states, idx)
  /\ filter_in_configs' = inst_cand_configs
  /\ filter_in_states' = inst_cand_states
  /\ padding_penalty_threshold' = PaddingStart
  /\ fpc' = "pad"
  /\ UNCHANGED <<configs, cand_states, filter_cand_states, states_grid_size, max_sm_times,
                 occupancy_ratio, pipeFixed>>

KeepFiltered(temp, filtered) == filtered

\* lines 830-831: after an attempt that kept nothing the candidates are the
\* copies taken before it
Restored(temp, filtered) == temp

\* lines 820-833 and 37-98: one pass of the padding relaxation loop
PaddingAttempt ==
  /\ fpc = "pad"
  /\ \E tie \in BOOLEAN :
       LET idx == ValidPositions([i \in 1..Len(inst_cand_states) |->
                     Exceeds(PaddingPenalty(inst_cand_states[i]),
                             padding_penalty_threshold, tie)])
       IN  IF idx # <<>>
           THEN /\ inst_cand_configs' = Select(inst_cand_configs, idx)
                /\ inst_cand_states' = Select(inst_cand_states, idx)
                /\ fpc' = "sci"
                /\ UNCHANGED padding_penalty_threshold
           ELSE /\ padding_penalty_threshold' = Lower(padding_penalty_threshold)
                /\ inst_cand_configs' = Restored(inst_cand_configs, Select(inst_cand_configs, idx))
                /\ inst_cand_states' = Restored(inst_cand_states, Select(inst_cand_states, idx))
                /\ UNCHANGED fpc
  /\ filter_in_configs' = inst_cand_configs
  /\ filter_in_states' = inst_cand_states
  /\ UNCHANGED <<configs, cand_states, filter_cand_states, states_grid_size, max_sm_times,
                 occupancy_ratio, pipeFixed>>

\* lines 837-838 and 324-356
SharedMemoryComputeIntensiveFilter ==
  /\ fpc = "sci"
  /\ \E q \in DescendingOrders(inst_cand_configs, 1) :
       LET idx == SubSeq(q, 1, Min(SmemKeep, Len(inst_cand_configs))) IN
       /\ inst_cand_configs' = Select(inst_cand_configs, idx)
       /\ inst_cand_states' = Select(inst_cand_states, idx)
  /\ filter_in_configs' = inst_cand_configs
  /\ filter_in_states' = inst_cand_states
  /\ fpc' = "rci"
  /\ UNCHANGED <<configs, cand_states, filter_cand_states, padding_penalty_threshold,
                 states_grid_size, max_sm_times, occupancy_ratio, pipeFixed>>

\* lines 849-851 and 376-410
RegComputeIntensiveFilter ==
  /\ fpc = "rci"
  /\ \E q \in DescendingOrders(inst_cand_configs, 2) :
       LET idx == SubSeq(q, 1, Min(RegKeep, Len(inst_cand_configs))) IN
       /\ inst_cand_configs' = Select(inst_cand_configs, idx)
       /\ inst_cand_states' = Select(inst_cand_states, idx)
  /\ filter_in_configs' = inst_cand_configs
  /\ filter_in_states' = inst_cand_states
  /\ fpc' = "store"
  /\ UNCHANGED <<configs, cand_states, filter_cand_states, padding_penalty_threshold,
                 states_grid_size, max_sm_times, occupancy_ratio, pipeFixed>>

\* lines 861-867: the survivors enter the map keyed by config
StoreCandidates ==
  /\ fpc = "store"
  /\ filter_cand_states' = MapAssignAll(filter_cand_states, inst_cand_configs, inst_cand_states, 1)
  /\ fpc' = "done"
  /\ UNCHANGED <<configs, cand_states, inst_cand_configs, inst_cand_states,
                 padding_penalty_threshold, states_grid_size, max_sm_times, occupancy_ratio,
                 filter_in_configs, filter_in_states, pipeFixed>>

NextFilter ==
  \/ EffCandidates
  \/ OccupancyCall
  \/ OccupancyPass
  \/ RegisterLaunchBoundsFilter
  \/ SharedMemoryLaunchBoundsFilter
  \/ PaddingAttempt
  \/ SharedMemoryComputeIntensiveFilter
  \/ RegComputeIntensiveFilter
  \/ StoreCandidates

\* a dynamic task of one instance on which nothing else runs
FilterTask ==
  /\ InitSample /\ min_population = 0 /\ population = 1
  /\ num_insts = 1 /\ eps2 = 0 /\ retry_param = 0
  /\ SearchIdle /\ PoolEmpty
  /\ EvoOff /\ num_iters = 0
  /\ SketchOff /\ NoSketchRules
  /\ FilterOff

\* a descriptor every candidate of the ordering runs passes under
RoomyHardware ==
  [warp_size |-> 1, compute_sm_partition |-> <<1, 1>>, smem_sm_partition |-> <<1, 1>>,
   glbmem_sm_partition |-> <<1, 1>>, max_reg_per_sm |-> 512, max_smem_usage_per_sm |-> 64,
   lt_ratio |-> 1, gt_ratio |-> 1, num_cores |-> 1]

\* a state of one split step
OneSplitState(stages, extent, lengths) ==
  [stages |-> stages, transform_steps |-> <<SplitStep(0, 0, extent, lengths, TRUE)>>]

TileValues == 1..MaxTile

\* configs of one tile shape (two space levels and one reduce level of one
\* dimension each) that differ in their tiles and in their thread count
OrderConfigs ==
  {[space_tiles |-> <<<<s1>>, <<s2>>>>, reduce_tiles |-> <<<<r>>>>, threads_num |-> th,
    single_thread_reg_usage |-> 16, smem_usage |-> 16, compute_intensive_ratio |-> <<1, 1>>] :
     s1 \in TileValues, s2 \in TileValues, r \in TileValues, th \in 1..2}

InitOrder ==
  /\ FilterTask
  /\ hardware_api = RoomyHardware
  /\ \E cfgs \in [1..OrderCands -> OrderConfigs] :
       emitted = [i \in 1..OrderCands |->
                    [config |-> [cfgs[i] EXCEPT !.compute_intensive_ratio = <<i, i>>],
                     state |-> OneSplitState(i, 4, <<2, 2, 1>>)]]

SpecOrder == InitOrder /\ [][NextFilter]_vars

\* the split steps of the candidate states: extents 3 and 5 split by three
\* factors (they set the grid size), by two (padding only) or by one (neither)
SplitChoices ==
  {<<extent, lengths>> :
     extent \in {3, 5},
     lengths \in {<<1, 1, 1>>, <<2, 1, 1>>, <<2, 2, 1>>, <<2, 2>>, <<4>>}}

\* a config that passes both launch-bounds filters of RoomyHardware, told
\* from the others by its compute-intensity ratios
PlainConfig(i) ==
  [space_tiles |-> <<<<1>>, <<1>>>>, reduce_tiles |-> <<<<1>>>>, threads_num |-> 1,
   single_thread_reg_usage |-> 16, smem_usage |-> 16, compute_intensive_ratio |-> <<i, i>>]

\* descriptors that differ in what OccupancyFilter reads
OccupancyHardware ==
  {[RoomyHardware EXCEPT !.smem_sm_partition = <<1, s1>>, !.glbmem_sm_partition = <<g0, 1>>,
                         !.lt_ratio = lt, !.num_cores = cores] :
     s1 \in 1..MaxPartition, g0 \in 1..MaxPartition, lt \in 1..MaxCoeff,
     cores \in {1, MaxPartition + 1}}

InitOccupancy ==
  /\ FilterTask
  /\ hardware_api \in OccupancyHardware
  /\ \E n \in 1..MaxCands : \E splits \in [1..n -> SplitChoices] :
       emitted = [i \in 1..n |->
                    [config |-> PlainConfig(i),
                     state |-> OneSplitState(1, splits[i][1], splits[i][2])]]

SpecOccupancy == InitOccupancy /\ [][NextFilter]_vars

FairSpecOccupancy == SpecOccupancy /\ WF_vars(NextFilter)

\* configs that differ in what the launch-bounds filters read: registers per
\* thread, the first reduce tile, threads per block and shared memory
LaunchConfigs ==
  {[space_tiles |-> <<<<1>>, <<1>>>>, reduce_tiles |-> <<<<r>>>>, threads_num |-> th,
    single_thread_reg_usage |-> reg, smem_usage |-> smem, compute_intensive_ratio |-> <<1, 1>>] :
     r \in {8, 16}, th \in 1..2, reg \in {64, 65, 128}, smem \in {16, 32}}

\* extent 4 split by three factors into a grid of 4 or of 2
LaunchSplits == {<<1, 1, 1>>, <<2, 1, 1>>}

\* descriptors that differ in what the launch-bounds filters read
LaunchHardware ==
  {[RoomyHardware EXCEPT !.smem_sm_partition = <<1, s1>>, !.max_reg_per_sm = regs,
                         !.max_smem_usage_per_sm = 32] :
     s1 \in 1..MaxPartition, regs \in {128, 512}}

\* the pipeline is given one of the lists of `counts` candidates
LaunchInit(counts) ==
  /\ FilterTask
  /\ hardware_api \in LaunchHardware
  /\ \E n \in counts : \E stages \in {DeepSchedule, DeepSchedule + 1} :
     \E cfgs \in [1..n -> LaunchConfigs] : \E splits \in [1..n -> LaunchSplits] :
       emitted = [i \in 1..n |->
                    [config |-> cfgs[i], state |-> OneSplitState(stages, 4, splits[i])]]

InitLaunch == LaunchInit(1..MaxCands)

SpecLaunch == InitLaunch /\ [][NextFilter]_vars

\* the pipeline on a single candidate; each step of it is taken eventually
InitLaunchOne == LaunchInit({1})

FairSpecLaunchOne == InitLaunchOne /\ [][NextFilter]_vars /\ WF_vars(NextFilter)

\* the pipeline on more candidates than the compute-intensity filters keep
MaxKeepCands == 24

\* the position filter f of the four rejects under choice c (0: none)
RejectedAt(f, c) == IF c = 0 THEN 0 ELSE IF c = 1 THEN 2 + f ELSE 10 + 3 * f

\* a descriptor under which a block of one thread fails ThreadsNumberFilter
KeepHardware == [RoomyHardware EXCEPT !.warp_size = 2]

Raised(value, low) == IF value < low THEN low ELSE value

\* candidate i of a list: told from the others by its first space tile and
\* by a split of one factor in its state; bad names the position that fails
\* ThreadsNumberFilter (one thread), RegisterLaunchBoundsFilter (256
\* registers), SharedMemoryLaunchBoundsFilter (128 bytes of 64) and
\* PaddingFilter (extent 3 in tiles of 4); the ratios are distinct multiples
\* modulo 29, raised to `low` where they are below it
KeepCandidate(i, bad, mult, low) ==
  [config |->
     [space_tiles |-> <<<<i>>, <<1>>>>, reduce_tiles |-> <<<<1>>>>,
      threads_num |-> IF bad[1] = i THEN 1 ELSE 2,
      single_thread_reg_usage |-> IF bad[2] = i THEN 256 ELSE 16,
      smem_usage |-> IF bad[3] = i THEN 128 ELSE 16,
      compute_intensive_ratio |-> <<Raised((mult * i) % 29, low),
                                   Raised((3 * mult * i) % 29, low)>>],
   state |->
     [stages |-> 4,
      transform_steps |-> <<SplitStep(0, 0, IF bad[4] = i THEN 3 ELSE 4, <<2, 2, 1>>, TRUE),
                            SplitStep(1, 0, MaxKeepCands, <<i>>, TRUE)>>]]

InitKeep ==
  /\ FilterTask
  /\ hardware_api = KeepHardware
  /\ \E choice \in [1..4 -> 0..2] : \E mult \in 1..2 : \E low \in {0, 4} :
       emitted = [i \in 1..MaxKeepCands |->
                    KeepCandidate(i, [f \in 1..4 |-> RejectedAt(f, choice[f])], mult, low)]

SpecKeep == InitKeep /\ [][NextFilter]_vars

\* ------------------------------------------------- SearchTask::SearchTask
\* bounds of the constructor's arguments
MaxShapeVars == 2

MaxWklInsts == 2

MaxWeight == 2

\* Optional<T>: nullopt, or a value
NullOpt == <<>>

Some(value) == <<value>>

Defined(opt) == opt # NullOpt

\* the policy and its stages idle: only the constructor runs
PolicyIdle ==
  /\ InitSample /\ min_population = 0 /\ population = 1
  /\ num_insts = 0 /\ eps2 = 0 /\ retry_param = 0
  /\ NoOperation /\ PoolEmpty
  /\ EvoOff /\ num_iters = 0
  /\ SketchOff /\ NoSketchRules
  /\ FilterOff

\* everything but the frames of the constructor and of EmitConfig
policyVars == <<sampVars, policyParams, evoVars, stageVars, num_measure_per_iter_, poolVars,
                measurerVars, op, pc, calls, loopVars, dispVars, retVars>>

\* line 279 tests the parameter shape_vars after line 278 has moved from it.
\* The move assignment of Optional is not in the sources: a moved-from object
\* reference is null in TVM, and the test then fails for every argument; the
\* other outcome (the parameter still holds its value) is kept as well.
TestedAfterMove == IF moved_from_null THEN NullOpt ELSE arg_shape_vars

\* lines 279-282: do the CHECKs pass?
ChecksOfShapeVars(tested) ==
  Defined(tested) => (Defined(arg_wkl_insts) /\ Defined(arg_wkl_inst_weights))

\* lines 249-294: the constructor, called with its arguments
SearchTaskNew ==
  /\ tpc = "new"
  /\ node_shape_vars' = arg_shape_vars
  /\ IF ChecksOfShapeVars(TestedAfterMove)
     THEN /\ node_wkl_insts' = arg_wkl_insts
          /\ node_wkl_inst_weights' = arg_wkl_inst_weights
          /\ tpc' = "task"
     ELSE /\ tpc' = "fatal"
          /\ UNCHANGED <<node_wkl_insts, node_wkl_inst_weights>>
  /\ UNCHANGED <<arg_shape_vars, arg_wkl_insts, arg_wkl_inst_weights, moved_from_null,
                 policyVars, emitVars>>

\* the arguments a caller may pass: shape variables, instances and weights
\* each absent or given, of any length up to the bounds
InitTask ==
  /\ PolicyIdle /\ NoHardware /\ EmitOff
  /\ tpc = "new"
  /\ moved_from_null \in BOOLEAN
  /\ arg_shape_vars \in {NullOpt} \cup {Some([i \in 1..n |-> i]) : n \in 1..MaxShapeVars}
  /\ arg_wkl_insts \in {NullOpt} \cup {Some([i \in 1..n |-> i]) : n \in 0..MaxWklInsts}
  /\ arg_wkl_inst_weights \in {NullOpt} \cup {Some(w) : w \in SeqUpTo(1..MaxWeight, MaxWklInsts)}
  /\ node_shape_vars = NullOpt
  /\ node_wkl_insts = NullOpt
  /\ node_wkl_inst_weights = NullOpt

NextTask == SearchTaskNew

SpecTask == InitTask /\ [][NextTask]_vars

\* ------------------------------------------------------------ EmitConfig
\* (sketch_policy.cc, lines 250-749)
\*
\* dag is what the code reads of the task's first stage with a reduction:
\*   space_extent[i][w], reduce_extent[i][w]   the extent of the i-th spatial
\*       (reduction) iterator under workload instance w
\*   expr_extractor   one entry per expression of the body, each a sequence of
\*       accesses [producer, indices], an index being <<"space", j>> or
\*       <<"reduce", j>> with j counted from 0
\*   tensor_type_size the bytes of an element of the first input tensor
\* hardware_api holds num_level, reg_cap, smem_cap, transaction_size and
\* compute_sm_partition. The two double fields of a config (k_threshold,
\* compute_intensive_ratio) are computed and stored but read by no branch of
\* these functions; they are left out.

\* v[i] of a C++ vector, i counted from 0
At(vec, i) == vec[i + 1]

RECURSIVE Gcd(_, _)
Gcd(a, b) == IF b = 0 THEN a ELSE Gcd(b, a % b)

\* the largest element of a non-empty sequence of naturals, 0 for an empty one
MaxExtent(extents) ==
  IF extents = <<>> THEN 0
  ELSE CHOOSE m \in {extents[w] : w \in DOMAIN extents} :
         \A w \in DOMAIN extents : extents[w] <= m

\* GetPrimNumber is not among the sources; the specification calls its result
\* "small-prime multipliers": the primes below, ascending
SmallPrimes == <<2, 3>>

GetPrimNumber(extents) == SmallPrimes

\* GetParallelism is not among the sources; the specification calls its result
\* the "parallel thread count" of a block tile over a thread tile: the number
\* of thread tiles in the block tile
RECURSIVE GetParallelism(_, _)
GetParallelism(block_tiles, thread_tiles) ==
  IF block_tiles = <<>> THEN 1
  ELSE (Head(block_tiles) \div Head(thread_tiles))
       * GetParallelism(Tail(block_tiles), Tail(thread_tiles))

\* lines 323-333: the spatial iterators that are the last index of an access
NeedAlignSpaceIdx ==
  {idx[2] : idx \in {acc.indices[Len(acc.indices)] :
                       acc \in UNION {{ex[a] : a \in DOMAIN ex} :
                                        ex \in {dag.expr_extractor[e] :
                                                  e \in DOMAIN dag.expr_extractor}}}
                    \cap ({"space"} \X Nat)}

\* lines 347-354: base * j for the multipliers j in order, up to the first
\* that passes the largest extent
RegTile(sbase, max_extent, reg_align) ==
  LET over == {n \in DOMAIN reg_align : sbase * reg_align[n] > max_extent}
      len == IF over = {} THEN Len(reg_align)
             ELSE (CHOOSE n \in over : \A m \in over : n <= m) - 1
  IN [n \in 1..len |-> sbase * reg_align[n]]

\* lines 374, 385: the multiples a shared-memory tile list may hold
MaxMultiples == 32

\* lines 373-379, 384-390: the multiples of base_dim below the largest extent
SmemTile(base_dim, max_extent) ==
  LET over == {j \in 0..(MaxMultiples - 1) : base_dim * (j + 1) >= max_extent}
      len == IF over = {} THEN MaxMultiples
             ELSE CHOOSE j \in over : \A m \in over : j <= m
  IN [n \in 1..len |-> base_dim * n]

\* line 395: the largest reduction tile
RlenCap == 32

\* lines 398-407: the loop over the extents of one reduction iterator
RECURSIVE ReduceSmemTile(_, _, _, _, _)
ReduceSmemTile(extents, rlen_cap, rbase_dim, transaction_num, smem_tile) ==
  IF extents = <<>> THEN smem_tile
  ELSE LET cap == Min(rlen_cap, Head(extents))
           pushes == IF rbase_dim <= cap
                     THEN (cap - rbase_dim) \div transaction_num + 1 ELSE 0
           pushed == smem_tile \o [n \in 1..pushes |-> rbase_dim + (n - 1) * transaction_num]
           with_cap == IF \E n \in DOMAIN pushed : pushed[n] = cap
                       THEN pushed ELSE Append(pushed, cap)
       IN ReduceSmemTile(Tail(extents), cap, rbase_dim + pushes * transaction_num,
                         transaction_num, with_cap)

\* lines 248-412: the tile lists of a level over a base tile, as the pair
\* (first: per spatial iterator, second: per reduction iterator); any other
\* level gets the empty pair
GetAlignedTile(sbase_tile, rbase_tile, level) ==
  LET transaction_num == At(hardware_api.transaction_size, 0) \div dag.tensor_type_size
      Lcm(base) == (base * transaction_num) \div Gcd(base, transaction_num)
  IN IF level = 2
     THEN [first |-> [i \in DOMAIN sbase_tile |->
                        RegTile(sbase_tile[i], MaxExtent(dag.space_extent[i]),
                                <<1>> \o GetPrimNumber(dag.space_extent[i]))],
           second |-> [i \in DOMAIN rbase_tile |-> <<1>>]]
     ELSE IF level = 1
     THEN [first |-> [i \in DOMAIN sbase_tile |->
                        IF (i - 1) \notin NeedAlignSpaceIdx
                        THEN SmemTile(sbase_tile[i], MaxExtent(dag.space_extent[i]))
                        ELSE SmemTile(Lcm(sbase_tile[i]), MaxExtent(dag.space_extent[i]))],
           second |-> [i \in DOMAIN rbase_tile |->
                         ReduceSmemTile(dag.reduce_extent[i], RlenCap, Lcm(rbase_tile[i]),
                                        transaction_num, <<>>)]]
     ELSE [first |-> <<>>, second |-> <<>>]

\* lines 469-481: the tile of the iterator an index names
TileOf(index, space_tiles, reduce_tiles) ==
  IF index[1] = "space" THEN At(space_tiles, index[2]) ELSE At(reduce_tiles, index[2])

RECURSIVE VarRegUse(_, _, _)
VarRegUse(indices, space_tiles, reduce_tiles) ==
  IF indices = <<>> THEN 1
  ELSE TileOf(Head(indices), space_tiles, reduce_tiles)
       * VarRegUse(Tail(indices), space_tiles, reduce_tiles)

\* lines 463-485: the inner loop over the accesses of one expression; the
\* pair (reg_use, visited_producer)
RECURSIVE FootPrintOfExpr(_, _, _, _, _)
FootPrintOfExpr(accesses, space_tiles, reduce_tiles, reg_use, visited_producer) ==
  IF accesses = <<>> THEN <<reg_use, visited_producer>>
  ELSE LET acc == Head(accesses)
       IN IF acc.producer \in visited_producer
          THEN FootPrintOfExpr(Tail(accesses), space_tiles, reduce_tiles, reg_use,
                               visited_producer)
          ELSE FootPrintOfExpr(Tail(accesses), space_tiles, reduce_tiles,
                               reg_use + VarRegUse(acc.indices, space_tiles, reduce_tiles),
                               visited_producer \cup {acc.producer})

\* lines 462-489: the loop over the expressions
RECURSIVE FootPrintFrom(_, _, _, _, _, _)
FootPrintFrom(extractors, space_tiles, reduce_tiles, level, reg_use, visited_producer) ==
  IF extractors = <<>> THEN reg_use
  ELSE LET after == FootPrintOfExpr(Head(extractors), space_tiles, reduce_tiles, reg_use,
                                    visited_producer)
       IN FootPrintFrom(Tail(extractors), space_tiles, reduce_tiles, level,
                        IF level = 2 THEN Product(space_tiles) ELSE after[1], after[2])

\* lines 456-496
MemFootPrint(space_tiles, reduce_tiles, level) ==
  LET reg_use == FootPrintFrom(dag.expr_extractor, space_tiles, reduce_tiles, level, 0, {})
  IN IF level = 1 THEN reg_use * dag.tensor_type_size ELSE reg_use

\* a field of a config that no statement has assigned
Indeterminate == "indeterminate"

\* line 701: a default-constructed HwAlignedConfig (hw_aligned_config.h, 16-25)
no_base_config ==
  [space_tiles |-> <<>>, reduce_tiles |-> <<>>,
   single_thread_reg_usage |-> Indeterminate, smem_usage |-> Indeterminate,
   threads_num |-> Indeterminate, space_production_threshold |-> Indeterminate]

\* lines 539-542, 569-572: the vectors of a new config after resize(num_level)
Resized == [n \in 1..hardware_api.num_level |-> <<>>]

\* line 561: the thread count at which a shared-memory tile is rejected
ThreadLimit == 1024

\* lines 556, 561, 584: the threads of a block tile over the base's thread tile
ThreadsOf(base_config, space_tiles, level) ==
  GetParallelism(space_tiles, At(base_config.space_tiles, level))

\* the test of line 561 alone
ThreadLimitOnly(threads, reg_usage) == threads >= ThreadLimit

\* lines 556-563: the two tests on the thread count
ThreadsRejected(threads, reg_usage) ==
  \/ threads * reg_usage > At(hardware_api.reg_cap, 0)
  \/ threads >= ThreadLimit

\* lines 530-532, 550-563: does ConfigFilter return without a push?
Rejects(base_config, space_tiles, reduce_tiles, level) ==
  IF level = 2
  THEN MemFootPrint(space_tiles, reduce_tiles, level) > At(hardware_api.reg_cap, 1)
  ELSE IF level = 1
  THEN \/ MemFootPrint(space_tiles, reduce_tiles, level) > At(hardware_api.smem_cap, 0)
       \/ ThreadsRejected(ThreadsOf(base_config, space_tiles, level),
                          base_config.single_thread_reg_usage)
  ELSE TRUE

\* lines 556, 574: at level 1, past the test of the footprint, the code indexes
\* space_tiles[1] of the base and of the new config: out of bounds for the
\* default-constructed base and under a hierarchy of one level
FilterOutOfBounds(base_config, space_tiles, reduce_tiles, level) ==
  /\ level = 1
  /\ MemFootPrint(space_tiles, reduce_tiles, level) <= At(hardware_api.smem_cap, 0)
  /\ (Len(base_config.space_tiles) <= level \/ hardware_api.num_level <= level)

\* lines 538-549, 568-588: the config pushed for an accepted tuple
NewConfig(base_config, space_tiles, reduce_tiles, level) ==
  IF level = 2
  THEN [space_tiles |-> [Resized EXCEPT ![level] = space_tiles],
        reduce_tiles |-> [Resized EXCEPT ![level] = reduce_tiles],
        single_thread_reg_usage |-> MemFootPrint(space_tiles, reduce_tiles, level),
        smem_usage |-> Indeterminate,
        threads_num |-> Indeterminate,
        space_production_threshold |-> Indeterminate]
  ELSE [space_tiles |-> [Resized EXCEPT ![level + 1] = At(base_config.space_tiles, level),
                                        ![level] = space_tiles],
        reduce_tiles |-> [Resized EXCEPT ![level + 1] = At(base_config.reduce_tiles, level),
                                         ![level] = reduce_tiles],
        single_thread_reg_usage |-> base_config.single_thread_reg_usage,
        smem_usage |-> MemFootPrint(space_tiles, reduce_tiles, level),
        threads_num |-> ThreadsOf(base_config, space_tiles, level),
        space_production_threshold |->
          At(hardware_api.compute_sm_partition, 0) * 2 * Product(space_tiles)]

\* lines 499-590: *pnext after the call
ConfigFilter(next_configs, base_config, space_tiles, reduce_tiles, level) ==
  IF Rejects(base_config, space_tiles, reduce_tiles, level) THEN next_configs
  ELSE Append(next_configs, NewConfig(base_config, space_tiles, reduce_tiles, level))

\* the last element of a tile list taken for its end
EndAtLast(tiles) == Len(tiles)

\* end() of a tile list, as a position
End(tiles) == Len(tiles) + 1

\* lines 601-606: the tuple under the pointers
TileAt(tiles, ptr) == [i \in DOMAIN ptr |-> tiles[i][ptr[i]]]

\* lines 619-629: the carry of the reduction pointers, from position j
RECURSIVE CarryReduce(_, _, _)
CarryReduce(rptr, tiles, j) ==
  IF j < 1 \/ rptr[j] # End(tiles[j]) \/ j = 1 THEN rptr
  ELSE CarryReduce([rptr EXCEPT ![j] = 1, ![j - 1] = @ + 1], tiles, j - 1)

\* lines 613-636: the carry of the spatial pointers, from position i; the pair
\* (space_ptr, reduce_ptr)
RECURSIVE CarrySpace(_, _, _, _)
CarrySpace(sptr, rptr, tiles, i) ==
  IF i < 1 \/ sptr[i] # End(tiles.first[i]) THEN <<sptr, rptr>>
  ELSE IF i = 1
  THEN <<[sptr EXCEPT ![i] = 1],
         CarryReduce([rptr EXCEPT ![Len(rptr)] = @ + 1], tiles.second, Len(rptr))>>
  ELSE CarrySpace([sptr EXCEPT ![i] = 1, ![i - 1] = @ + 1], rptr, tiles, i - 1)

\* lines 640-647
HasNextConfig(rptr, reduce_tiles) == rptr[1] # End(reduce_tiles[1])

\* lines 593-637: one call, as the triple (*pnext, space_ptr, reduce_ptr)
GetNextConfig(next_configs, base_config, level, sptr, rptr, tiles) ==
  LET last == Len(sptr)
      pushed == ConfigFilter(next_configs, base_config, TileAt(tiles.first, sptr),
                             TileAt(tiles.second, rptr), level)
      moved == IF Len(pushed) = Len(next_configs)
               THEN [sptr EXCEPT ![last] = End(tiles.first[last])]
               ELSE [sptr EXCEPT ![last] = @ + 1]
      carried == CarrySpace(moved, rptr, tiles, last)
  IN <<pushed, carried[1], carried[2]>>

\* lines 683-697, 716-730: is some tile list empty?
HasZeroTiles(tiles) ==
  \/ \E i \in DOMAIN tiles.first : tiles.first[i] = <<>>
  \/ \E i \in DOMAIN tiles.second : tiles.second[i] = <<>>

\* the base of the running enumeration
BaseConfig == IF base_i < 0 THEN no_base_config ELSE At(aligned_now, base_i)

\* the passes of the outer loop one call is followed through
MaxLevelPasses == 4

\* lines 650-668: the call
EmitConfigCall ==
  /\ cpc = "off"
  /\ cpc' = "level"
  /\ mem_level' = hardware_api.num_level
  /\ aligned_now' = <<>>
  /\ aligned_next' = <<>>
  /\ level_passes' = 0
  /\ UNCHANGED <<dag, base_i, align_tiles, space_ptr, reduce_ptr, emitted_configs, handed,
                 next_at_base, policyVars, ctorVars>>

\* the pointers set to begin() of every list, and the history of the base
StartEnumeration(tiles) ==
  /\ align_tiles' = tiles
  /\ space_ptr' = [i \in DOMAIN tiles.first |-> 1]
  /\ reduce_ptr' = [i \in DOMAIN tiles.second |-> 1]
  /\ handed' = <<>>
  /\ next_at_base' = Len(aligned_next)
  /\ cpc' = "enum"

\* lines 707-708, 743-746: the swap of the two vectors, the clear and the decrement
EndOfLevel ==
  /\ aligned_now' = aligned_next
  /\ aligned_next' = <<>>
  /\ mem_level' = mem_level - 1
  /\ cpc' = "level"

\* lines 669-700, 709-710, 748: the test of the outer loop and the head of a pass
LevelPass ==
  /\ cpc = "level"
  /\ IF mem_level <= 0
     THEN /\ cpc' = "ret"
          /\ emitted_configs' = aligned_now
          /\ UNCHANGED <<base_i, align_tiles, space_ptr, reduce_ptr, level_passes, handed,
                         next_at_base>>
     ELSE /\ level_passes < MaxLevelPasses
          /\ level_passes' = level_passes + 1
          /\ UNCHANGED emitted_configs
          /\ IF aligned_now = <<>>
             THEN LET ones(n) == [i \in 1..n |-> 1]
                      tiles == GetAlignedTile(ones(Len(dag.space_extent)),
                                              ones(Len(dag.reduce_extent)), mem_level)
                  IN IF HasZeroTiles(tiles)
                     THEN \* line 699: continue, past the decrement of line 746
                          UNCHANGED <<cpc, base_i, align_tiles, space_ptr, reduce_ptr, handed,
                                      next_at_base>>
                     ELSE /\ base_i' = -1
                          /\ StartEnumeration(tiles)
             ELSE /\ base_i' = 0
                  /\ cpc' = "base"
                  /\ UNCHANGED <<align_tiles, space_ptr, reduce_ptr, handed, next_at_base>>
  /\ UNCHANGED <<dag, mem_level, aligned_now, aligned_next, policyVars, ctorVars>>

\* lines 710-733, 743-746: the head of the loop over the bases
BaseStart ==
  /\ cpc = "base"
  /\ IF base_i >= Len(aligned_now)
     THEN /\ EndOfLevel
          /\ UNCHANGED <<base_i, align_tiles, space_ptr, reduce_ptr, handed, next_at_base>>
     ELSE LET base == At(aligned_now, base_i)
              tiles == GetAlignedTile(At(base.space_tiles, mem_level),
                                      At(base.reduce_tiles, mem_level), mem_level)
          IN /\ IF HasZeroTiles(tiles)
                THEN /\ base_i' = base_i + 1
                     /\ UNCHANGED <<cpc, align_tiles, space_ptr, reduce_ptr, handed,
                                    next_at_base>>
                ELSE /\ StartEnumeration(tiles)
                     /\ UNCHANGED base_i
             /\ UNCHANGED <<mem_level, aligned_now, aligned_next>>
  /\ UNCHANGED <<dag, emitted_configs, level_passes, policyVars, ctorVars>>

\* lines 701-708, 734-741: the test of the enumeration and one call of
\* GetNextConfig
EnumStep ==
  /\ cpc = "enum"
  /\ IF HasNextConfig(reduce_ptr, align_tiles.second)
     THEN IF FilterOutOfBounds(BaseConfig, TileAt(align_tiles.first, space_ptr),
                               TileAt(align_tiles.second, reduce_ptr), mem_level)
          THEN /\ cpc' = "ub"
               /\ UNCHANGED <<mem_level, aligned_now, aligned_next, base_i, space_ptr,
                              reduce_ptr, handed>>
          ELSE LET next == GetNextConfig(aligned_next, BaseConfig, mem_level, space_ptr,
                                         reduce_ptr, align_tiles)
               IN /\ aligned_next' = next[1]
                  /\ space_ptr' = next[2]
                  /\ reduce_ptr' = next[3]
                  /\ handed' = Append(handed, <<TileAt(align_tiles.first, space_ptr),
                                                TileAt(align_tiles.second, reduce_ptr)>>)
                  /\ UNCHANGED <<cpc, mem_level, aligned_now, base_i>>
     ELSE /\ IF base_i < 0
             THEN EndOfLevel /\ UNCHANGED base_i
             ELSE /\ base_i' = base_i + 1
                  /\ cpc' = "base"
                  /\ UNCHANGED <<mem_level, aligned_now, aligned_next>>
          /\ UNCHANGED <<space_ptr, reduce_ptr, handed>>
  /\ UNCHANGED <<dag, align_tiles, emitted_configs, level_passes, next_at_base, policyVars,
                 ctorVars>>

NextEmit == EmitConfigCall \/ LevelPass \/ BaseStart \/ EnumStep

\* the extents of the small tasks
MaxSpaceExtent == 4

MaxReduceExtent == 3

\* the spatial extent of the wide task: room for 32 multiples of 32
WideExtent == 2048

Access(producer, indices) == [producer |-> producer, indices |-> indices]

\* C[i, j] += A[i, k] * B[k, j] under one workload instance
MatMulTasks ==
  {[space_extent |-> <<<<m>>, <<n>>>>, reduce_extent |-> <<<<r>>>>,
    expr_extractor |-> <<<<Access("A", <<<<"space", 0>>, <<"reduce", 0>>>>),
                           Access("B", <<<<"reduce", 0>>, <<"space", 1>>>>)>>>>,
    tensor_type_size |-> 4] :
     m \in {1, MaxSpaceExtent}, n \in 1..MaxSpaceExtent, r \in 1..MaxReduceExtent}

\* C[i] += A[i, k, l] * W[k, l] under two workload instances
TwoReduceTasks ==
  {[space_extent |-> <<<<m, MaxSpaceExtent>>>>, reduce_extent |-> <<<<r, 2>>, <<2, 2>>>>,
    expr_extractor |-> <<<<Access("A", <<<<"space", 0>>, <<"reduce", 0>>, <<"reduce", 1>>>>),
                           Access("W", <<<<"reduce", 0>>, <<"reduce", 1>>>>)>>>>,
    tensor_type_size |-> 4] :
     m \in 1..MaxSpaceExtent, r \in 2..MaxReduceExtent}

\* C[i] += A[k, i] with a long spatial iterator
WideTasks ==
  {[space_extent |-> <<<<WideExtent>>>>, reduce_extent |-> <<<<r>>>>,
    expr_extractor |-> <<<<Access("A", <<<<"reduce", 0>>, <<"space", 0>>>>)>>>>,
    tensor_type_size |-> 4] : r \in 1..2}

\* descriptors for the small tasks: one or two levels, a register file per
\* thread of 0, 2 or 6 values, transactions of one or two elements
SmallHardware ==
  {[num_level |-> nl, reg_cap |-> <<r0, r1>>, smem_cap |-> <<sm>>,
    transaction_size |-> <<ts>>, compute_sm_partition |-> <<1>>] :
     nl \in 1..2, r0 \in {4, 16}, r1 \in {0, 2, 6}, sm \in {32, 64}, ts \in {4, 8}}

\* descriptors for the wide task: transactions of 128 bytes, 48 KB of shared
\* memory, 255 registers per thread and 2048 or 65536 per block
WideHardware ==
  {[num_level |-> 2, reg_cap |-> <<r0, 255>>, smem_cap |-> <<49152>>,
    transaction_size |-> <<128>>, compute_sm_partition |-> <<1>>] : r0 \in {2048, 65536}}

InitEmit ==
  /\ PolicyIdle /\ NoConstruction
  /\ emitted = <<>>
  /\ \/ dag \in MatMulTasks \cup TwoReduceTasks /\ hardware_api \in SmallHardware
     \/ dag \in WideTasks /\ hardware_api \in WideHardware
  /\ cpc = "off"
  /\ mem_level = 0
  /\ aligned_now = <<>>
  /\ aligned_next = <<>>
  /\ base_i = 0
  /\ align_tiles = <<>>
  /\ space_ptr = <<>>
  /\ reduce_ptr = <<>>
  /\ emitted_configs = <<>>
  /\ level_passes = 0
  /\ handed = <<>>
  /\ next_at_base = 0

SpecEmit == InitEmit /\ [][NextEmit]_vars

\* ---------------------------------------------------------------- properties
\* positions i < j of a sequence
Pairs(s) == {p \in (1..Len(s)) \X (1..Len(s)) : p[1] < p[2]}

\* C1: while Search runs with n_trials > 1 the number of measured candidates
\* ct never exceeds n_trials, and the batch picked by a round is no longer than
\* num_measure_per_iter_ and no longer than the budget left when it was picked.
TrialBudgetKept ==
  op = "search" =>
    /\ ct <= n_trials
    /\ Len(inputs) <= num_measure_per_iter_
    /\ Len(inputs) <= n_trials - (ct - Len(inputs))

\* the budget is exhausted by a round whose batch is shorter than num_measure_per_iter_
BudgetClipsBatch ==
  /\ op = "search" /\ pc = "after" /\ leftBy = "budget"
  /\ ct = n_trials
  /\ Len(measured_states_vector_) = n_trials
  /\ 0 < Len(inputs) /\ Len(inputs) < num_measure_per_iter_

\* C2: Search with n_trials > 1 always leaves its while loop: from the head of
\* the loop the code after the loop is eventually reached.
SearchLeavesLoop == (op = "search" /\ pc = "loop") ~> (op = "search" /\ pc = "after")

\* C3: whenever Search, ContinueSearchOneRound or EfficientSearch has returned,
\* measured_states_vector_ and measured_states_throughputs_ have the same length.
PoolLengthsAgreeAtReturn ==
  pc = "ret" => Len(measured_states_vector_) = Len(measured_states_throughputs_)

\* C4: the states picked for measurement over all rounds and calls have
\* pairwise different canonical strings, every one of them is recorded in
\* measured_states_set_, and the batch of the running round is the tail of
\* measured_states_vector_.
NoStringPickedTwice ==
  /\ \A p \in Pairs(measured_states_vector_) :
       ToStr(measured_states_vector_[p[1]]) # ToStr(measured_states_vector_[p[2]])
  /\ measured_states_set_ = {ToStr(s) : s \in Range(measured_states_vector_)}
  /\ Len(inputs) <= Len(measured_states_vector_)
  /\ \A i \in 1..Len(inputs) :
       inputs[i] = measured_states_vector_[Len(measured_states_vector_) - Len(inputs) + i]

\* a ContinueSearchOneRound call adds a state to the two picked by Search before it
PickedAcrossCalls ==
  /\ op = "cont" /\ pc = "ret"
  /\ calls = 2
  /\ Len(measured_states_vector_) = 3
  /\ Len(inputs) = 1

\* C5: when Search on a dynamic task returns, the last dispatch pass has left
\* no instance in need of re-dispatch: a failed build is followed by another pass.
RedispatchUntilClean ==
  (op = "search" /\ pc = "ret" /\ is_dyn) => next_wkl_inst_ids = {}

\* C6: the dispatch result of EfficientSearch on a non-empty pool has one map
\* entry for each instance index 0..n-1, each a valid index into the returned
\* list, and every returned state is an element of measured_states_vector_.
EffDispatchWellFormed ==
  (op = "eff" /\ pc = "ret") =>
    /\ DOMAIN ret_map = 0..(num_insts - 1)
    /\ \A inst \in DOMAIN ret_map : ret_map[inst] \in 0..(Len(ret_states) - 1)
    /\ \A i \in 1..Len(ret_states) : ret_states[i] \in Range(measured_states_vector_)

\* EfficientSearch gives two instances two different states of the pool
EffTwoInstancesServed ==
  /\ op = "eff" /\ pc = "ret"
  /\ num_insts = 2
  /\ Len(ret_states) = 2
  /\ ret_states[1] # ret_states[2]
  /\ ret_map[1] = 1

\* C7: the heap of EvolutionarySearch never holds more than out_size items, and
\* the call returns at most out_size states, with pairwise different canonical
\* strings, none of them in measured_states_set_.
RetainedBounded ==
  /\ epc # "off" => Cardinality(heap) <= out_size
  /\ epc = "ret" =>
       /\ Len(best_states) <= out_size
       /\ \A p \in Pairs(best_states) : ToStr(best_states[p[1]]) # ToStr(best_states[p[2]])
       /\ \A i \in 1..Len(best_states) : ToStr(best_states[i]) \notin measured_states_set_

\* a full heap is returned from a generation that also held a measured state
FullHeapSkipsMeasured ==
  /\ epc = "ret"
  /\ Len(sorted_heap) = out_size
  /\ Len(scored) > out_size
  /\ \E i \in 1..Len(scored) : ToStr(scored[i].s) \in measured_states_set_

\* the generation scored last has unmeasured states of pairwise different
\* strings and pairwise different scores
DistinctUnmeasured ==
  /\ \A p \in Pairs(scored) :
       /\ ToStr(scored[p[1]].s) # ToStr(scored[p[2]].s)
       /\ scored[p[1]].score # scored[p[2]].score
  /\ \A i \in 1..Len(scored) : ToStr(scored[i].s) \notin measured_states_set_

\* C8: with num_iters = 0 and a population of unmeasured states with distinct
\* strings and distinct scores, the call returns exactly the min(out_size,
\* population size) states of highest score in strictly descending order; for
\* any num_iters the output is in descending order of score, and an item was
\* taken out of the heap only for an item of strictly higher score.
TopScoresRetained ==
  /\ (epc = "ret" /\ num_iters = 0 /\ DistinctUnmeasured) =>
       /\ Len(sorted_heap) = Min(out_size, Len(scored))
       /\ \A p \in Pairs(sorted_heap) : sorted_heap[p[1]].score > sorted_heap[p[2]].score
       /\ \A i \in 1..Len(scored) :
            (scored[i] \in Range(sorted_heap)) <=>
              (Cardinality({j \in 1..Len(scored) : scored[j].score > scored[i].score})
                 < out_size)
  /\ epc = "ret" =>
       \A p \in Pairs(sorted_heap) : sorted_heap[p[1]].score >= sorted_heap[p[2]].score
  /\ \A e \in evicted : e[2] > e[1]

\* with num_iters = 0 and out_size = 1, the second state of a population of
\* two took the place of the first in the heap
BetterStateReplacesMinimum ==
  /\ epc = "ret" /\ num_iters = 0
  /\ out_size = 1
  /\ Len(scored) = 2
  /\ DistinctUnmeasured
  /\ evicted # {}

\* C9: SampleInitPopulation terminates: a running call eventually returns.
SampleTerminates == (spc = "run") ~> (spc = "ret")

\* C10: with min_population = 0, SampleInitPopulation has run exactly one wave
\* when it returns, and has not shrunk its target.
ZeroTargetRunsOneWave ==
  (spc = "ret" /\ min_population = 0) => (iter = 2 /\ ~shrunk)

\* C11: every state of out_states came from a slot whose state passed all
\* initialization rules and was kept by the pruning, had a score above the
\* reject floor, and no two states of out_states print the same string.
ReturnedStatesAccepted ==
  /\ Len(accepted) = Len(out_states)
  /\ \A i \in 1..Len(out_states) :
       /\ accepted[i].kind = "scored"
       /\ accepted[i].s = out_states[i]
       /\ accepted[i].score > RejectFloor
  /\ \A p \in Pairs(out_states) : ToStr(out_states[p[1]]) # ToStr(out_states[p[2]])

\* a call has returned two states after at least two waves
TwoStatesSampled ==
  /\ spc = "ret"
  /\ Len(out_states) = 2
  /\ iter = 3


\* the rules of the list that can leave the cursor where it is
StayingRules == {r \in 1..Len(sketch_rules) : sketch_rules[r].effect = "cache"}

\* C12: GenerateSketches runs at most one wave per stage, one per rule that
\* keeps the cursor and one that emits; every frontier entry is the extension
\* by one rule application of an entry of the wave before; an emitted state has
\* its cursor below the first stage, is in the output once and is not in the
\* frontier again; the loop is left only with an empty frontier.
EachPathEmittedOnce ==
  /\ waves <= num_stages + Cardinality(StayingRules) + 1
  /\ gpc = "run" =>
       /\ \A i \in 1..Len(states_buf) : Len(states_buf[i].path) = waves
       /\ \A i \in 1..Len(sketches) :
            /\ cur_stage_id_map[sketches[i].obj] < 0
            /\ Len(sketches[i].path) < waves
            /\ \A j \in 1..Len(states_buf) : states_buf[j].path # sketches[i].path
       /\ \A p \in Pairs(states_buf) : states_buf[p[1]].path # states_buf[p[2]].path
  /\ gpc = "ret" => states_buf = <<>>
  /\ \A p \in Pairs(sketches) : sketches[p[1]].path # sketches[p[2]].path

\* a call has returned three sketches, emitted in different waves
SketchesOfThreePaths ==
  /\ gpc = "ret"
  /\ Len(sketches) = 3
  /\ \E p \in Pairs(sketches) : Len(sketches[p[1]].path) # Len(sketches[p[2]].path)


\* the sketches of a list, as sets of transform-step sequences
StepsOf(list) == {list[i].transform_steps : i \in 1..Len(list)}

EmittedConfigs == {emitted[i].config : i \in 1..Len(emitted)}

SameTiles(a, b) == a.space_tiles = b.space_tiles /\ a.reduce_tiles = b.reduce_tiles

\* C14: on configs of one tile shape operator< is irreflexive, asymmetric and
\* transitive, incomparability is transitive, and two configs are incomparable
\* exactly when all their space and reduce tiles are equal; the map keyed by
\* config holds its keys in strictly ascending order, one entry for each tile
\* assignment among the stored configs.
ConfigOrderIsStrictWeak ==
  /\ \A a \in EmittedConfigs : ~Less(a, a)
  /\ \A a, b \in EmittedConfigs :
       /\ Less(a, b) => ~Less(b, a)
       /\ Equivalent(a, b) <=> SameTiles(a, b)
  /\ \A a, b, c \in EmittedConfigs :
       /\ (Less(a, b) /\ Less(b, c)) => Less(a, c)
       /\ (Equivalent(a, b) /\ Equivalent(b, c)) => Equivalent(a, c)
  /\ \A p \in Pairs(filter_cand_states) :
       Less(filter_cand_states[p[1]].key, filter_cand_states[p[2]].key)
  /\ fpc = "done" =>
       \A i \in 1..Len(inst_cand_configs) :
         \E j \in 1..Len(filter_cand_states) :
           SameTiles(filter_cand_states[j].key, inst_cand_configs[i])

\* three configs were stored, two of them with equal tiles and different
\* thread counts, and the map holds two entries
EquivalentConfigsShareEntry ==
  /\ fpc = "done"
  /\ Len(inst_cand_configs) = 3
  /\ Len(filter_cand_states) = 2
  /\ \E p \in Pairs(inst_cand_configs) :
       /\ SameTiles(inst_cand_configs[p[1]], inst_cand_configs[p[2]])
       /\ inst_cand_configs[p[1]].threads_num # inst_cand_configs[p[2]].threads_num


\* C15: OccupancyFilter terminates: once entered, its relaxation loop is left
\* (with a result that is not empty).
OccupancyFilterReturns == (fpc = "occ") ~> (fpc = "reg" /\ inst_cand_configs # <<>>)


\* the position of a config in the input of the filter that returned last
InputPosition(config) ==
  CHOOSE i \in 1..Len(filter_in_configs) : filter_in_configs[i] = config

\* C18: what OccupancyFilter returns is its input with some pairs left out:
\* the configs it keeps stand in the order they had in the input, none twice,
\* each with the state it was paired with.
OccupancyKeepsInputOrder ==
  fpc = "reg" =>
    /\ \A i \in 1..Len(inst_cand_configs) :
         /\ inst_cand_configs[i] \in Range(filter_in_configs)
         /\ inst_cand_states[i] = filter_in_states[InputPosition(inst_cand_configs[i])]
    /\ \A p \in Pairs(inst_cand_configs) :
         InputPosition(inst_cand_configs[p[1]]) < InputPosition(inst_cand_configs[p[2]])


\* C16: the padding relaxation loop, entered with candidates, never has to
\* lower its threshold below zero (it runs at most 20 times); after an attempt
\* that kept nothing the candidates are those that entered it; it is left at
\* the first threshold some candidate's penalty exceeds, with the candidates
\* that exceed it, which are not none.
PaddingLoopLeavesSurvivors ==
  /\ (fpc = "pad" /\ filter_in_configs # <<>>) =>
       /\ padding_penalty_threshold >= 0
       /\ padding_penalty_threshold <= PaddingStart
       /\ padding_penalty_threshold < PaddingStart =>
            /\ inst_cand_configs = filter_in_configs
            /\ inst_cand_states = filter_in_states
            /\ \A i \in 1..Len(filter_in_states) :
                 ~Exceeds(PaddingPenalty(filter_in_states[i]),
                          padding_penalty_threshold + 1, FALSE)
  /\ fpc = "sci" =>
       /\ inst_cand_configs # <<>>
       /\ Len(inst_cand_states) = Len(inst_cand_configs)
       /\ \A i \in 1..Len(inst_cand_states) :
            /\ inst_cand_states[i] \in Range(filter_in_states)
            /\ Exceeds(PaddingPenalty(inst_cand_states[i]), padding_penalty_threshold, TRUE)
       /\ padding_penalty_threshold < PaddingStart =>
            \A i \in 1..Len(filter_in_states) :
              ~Exceeds(PaddingPenalty(filter_in_states[i]),
                       padding_penalty_threshold + 1, FALSE)

\* the loop was left after failed attempts, keeping one of two candidates
PaddingRelaxedToOneSurvivor ==
  /\ fpc = "sci"
  /\ padding_penalty_threshold < PaddingStart
  /\ Len(filter_in_configs) = 2
  /\ Len(inst_cand_configs) = 1


\* 16 times the per-SM register demand of a candidate:
\* blocks_in_sm * threads_num * (reg_usage + reg_usage * reduce_tiles[0][0] / 16)
RegDemand16(config, state) ==
  BlocksInSm(state) * config.threads_num
    * (16 * config.single_thread_reg_usage
       + config.single_thread_reg_usage * config.reduce_tiles[1][1])

\* 16 times the per-thread usage: sch_base * reg_usage + reg_usage * reduce_tiles[0][0] / 16
RegPerThread16(config, sch_base) ==
  16 * sch_base * config.single_thread_reg_usage
    + config.single_thread_reg_usage * config.reduce_tiles[1][1]

\* C19: what RegisterLaunchBoundsFilter returns holds no config whose per-SM
\* register demand exceeds max_reg_per_sm and none whose per-thread usage
\* exceeds 255 (sch_base being 2 when the first input state has more than 7
\* stages, else 1); a candidate of demand 130 on a descriptor of 128 registers
\* per SM is not among the kept ones; every kept pair is a pair of the input.
RegisterBoundsRespected ==
  fpc = "smem" =>
    /\ Len(inst_cand_states) = Len(inst_cand_configs)
    /\ \A i \in 1..Len(inst_cand_configs) :
         /\ \E j \in 1..Len(filter_in_configs) :
              /\ filter_in_configs[j] = inst_cand_configs[i]
              /\ filter_in_states[j] = inst_cand_states[i]
         /\ ~(RegDemand16(inst_cand_configs[i], inst_cand_states[i])
                > 16 * hardware_api.max_reg_per_sm)
         /\ ~(RegPerThread16(inst_cand_configs[i],
                             IF filter_in_states[1].stages > 7 THEN 2 ELSE 1) > 16 * 255)
         /\ hardware_api.max_reg_per_sm = 128 =>
              RegDemand16(inst_cand_configs[i], inst_cand_states[i]) # 16 * 130

\* the filter was given a candidate of demand 130 on a descriptor of 128
\* registers per SM together with one it kept
Demand130Rejected ==
  /\ fpc = "smem"
  /\ hardware_api.max_reg_per_sm = 128
  /\ Len(inst_cand_configs) = 1
  /\ \E j \in 1..Len(filter_in_configs) :
       RegDemand16(filter_in_configs[j], filter_in_states[j]) = 16 * 130


\* C20: SharedMemoryLaunchBoundsFilter returns exactly the candidates whose
\* blocks_in_sm * smem_usage is at most max_smem_usage_per_sm, in input order.
SharedMemoryKeptUpToLimit ==
  fpc = "pad" /\ padding_penalty_threshold = PaddingStart =>
    LET idx == ValidPositions([i \in 1..Len(filter_in_configs) |->
                 SharedMemoryValidAtLimit(filter_in_configs[i], filter_in_states[i])])
    IN  /\ inst_cand_configs = Select(filter_in_configs, idx)
        /\ inst_cand_states = Select(filter_in_states, idx)


\* C17: the filter pipeline of an instance, entered with the configs
\* ThreadsNumberFilter kept, ends with at least one surviving config.
PipelineLeavesSurvivors ==
  (fpc = "inst" /\ configs # <<>>) ~> (fpc = "done" /\ inst_cand_configs # <<>>)


\* C23: Search with n_trials <= 1 calls neither the measurer (Reset, Measure)
\* nor the cost model (Update), leaves the measured set, the measured vector
\* and the measured throughputs as they are, and returns one state with an
\* empty dispatch map.
NoMeasureWithoutBudget ==
  /\ [](op = "search1" => (ext_calls = <<>> /\ results = <<>> /\ inputs = <<>>))
  /\ []((op = "search1" /\ pc = "ret") => (Len(ret_states) = 1 /\ ret_map = <<>>))
  /\ [][(op = "search1" \/ op' = "search1") =>
         (UNCHANGED poolVars /\ UNCHANGED measurerVars)]_vars

\* Search has returned from a call with n_trials <= 1 and
\* num_measure_per_iter = 2, after SearchOneRound sampled states
SearchReturnedUnmeasured ==
  /\ op = "search1" /\ pc = "ret"
  /\ n_trials = 1
  /\ num_measure_per_iter_ = 2
  /\ measured_states_vector_ # <<>>


\* C29: in Search the retry counter is the configured empty_retry_count less
\* the number of passes in a row that picked nothing; the loop goes on while
\* that number is at most empty_retry_count and is left for exhaustion exactly
\* when it has reached empty_retry_count + 1; a pass that picks a candidate
\* puts the counter back to the configured value.
GivesUpAfterRetries ==
  op = "search" =>
    /\ empty_retry_count = retry_param - empty_rounds
    /\ pc \in {"loop", "round"} => empty_rounds <= retry_param
    /\ leftBy = "empty" <=> empty_rounds = retry_param + 1
    /\ inputs # <<>> => empty_rounds = 0

\* the loop was left for exhaustion, with one retry configured, after a batch
\* had been measured
GaveUpAfterMeasuredBatch ==
  /\ op = "search" /\ pc = "after" /\ leftBy = "empty"
  /\ retry_param = 1
  /\ measured_states_vector_ # <<>>


\* the calls of fn among the calls made so far
CallsOf(fn) == SelectSeq(ext_calls, LAMBDA c : c.fn = fn)

\* C30: in Search the batches passed to Update are the measured batches, each
\* with its own inputs and results, in order and once each; when
\* SearchOneRound runs every measured batch has been passed, and elsewhere at
\* most the last one has not.
EachBatchUpdatedOnce ==
  op = "search" =>
    LET measured == CallsOf("Measure")
        updated == CallsOf("Update")
    IN  /\ Len(updated) <= Len(measured)
        /\ Len(measured) <= Len(updated) + 1
        /\ \A i \in 1..Len(updated) :
             /\ updated[i].inputs = measured[i].inputs
             /\ updated[i].results = measured[i].returned
        /\ pc = "round" => Len(updated) = Len(measured)
        /\ Len(measured) = Len(updated) + 1 =>
             /\ ext_calls[Len(ext_calls)].fn = "Measure"
             /\ inputs = measured[Len(measured)].inputs
        /\ \A i \in 1..Len(ext_calls) :
             ext_calls[i].fn = "Update" =>
               /\ i > 1
               /\ ext_calls[i - 1].fn = "Measure"
               /\ ext_calls[i].inputs = ext_calls[i - 1].inputs
               /\ ext_calls[i].inputs # <<>>

\* a batch was measured and passed to Update, and two passes that picked
\* nothing followed it
UpdatedThenEmptyRounds ==
  /\ op = "search" /\ pc = "after" /\ leftBy = "empty"
  /\ Len(CallsOf("Update")) = 1
  /\ retry_param = 1


\* C24: a pass of the mutation loop in which the chosen rule returns invalid
\* (the failure counter goes up) appends the parent it drew, unmodified, to
\* the next generation.
InvalidMutationKeepsParent ==
  [][(epc = "mutate" /\ mutation_fail_ct' > mutation_fail_ct) =>
       \E i \in 1..Len(pnow) : pnext' = Append(pnext, pnow[i])]_vars


\* the index (from 0) of a state in the measured pool
PoolIndex(state) ==
  (CHOOSE i \in 1..Len(measured_states_vector_) : measured_states_vector_[i] = state) - 1

\* C25: after a pass of the verification loop the adapted-score entries set
\* to 0 are, for each instance whose build failed (the instances recorded for
\* re-dispatch), the entry of that instance and of the pool index of the state
\* it was dispatched to, and no other.
FailedBuildClearsOwnEntry ==
  (op = "search" /\ passes >= 1) =>
    zeroed = {inst * Len(measured_states_vector_)
                + PoolIndex(ret_states[ret_map[inst] + 1]) : inst \in next_wkl_inst_ids}


\* C22: the constructor yields a task for shape variables only when the
\* workload instances and the instance weights are given and are equally
\* many; otherwise it aborts.
DynTaskHasInstancesAndWeights ==
  (tpc = "task" /\ Defined(arg_shape_vars)) =>
    /\ Defined(arg_wkl_insts)
    /\ Defined(arg_wkl_inst_weights)
    /\ Len(arg_wkl_insts[1]) = Len(arg_wkl_inst_weights[1])

\* the tuple a step of the enumeration hands to ConfigFilter
HandedNow == handed'[Len(handed')]

\* a call of GetNextConfig at a level
FilterCallAt(level) ==
  cpc = "enum" /\ mem_level = level /\ Len(handed') = Len(handed) + 1

\* C28: at the shared-memory level ConfigFilter pushes nothing exactly when the
\* footprint of the candidate is above smem_cap[0], or its thread count times
\* the register use of the base is above reg_cap[0], or its thread count is
\* above 1024; a candidate of exactly 1024 threads is pushed
SmemLevelRejectsOnlyAboveLimits ==
  [][FilterCallAt(1) =>
       LET threads == ThreadsOf(BaseConfig, HandedNow[1], 1)
       IN (aligned_next' = aligned_next) <=>
            \/ MemFootPrint(HandedNow[1], HandedNow[2], 1) > At(hardware_api.smem_cap, 0)
            \/ threads * BaseConfig.single_thread_reg_usage > At(hardware_api.reg_cap, 0)
            \/ threads > ThreadLimit]_vars

\* C26: EmitConfig terminates: every pass of its outer loop lowers the level
\* counter by one, from num_level down to 0, also when a dimension has no legal
\* tile multiplier or the level before accepted no config; at the head of the
\* loop the counter is num_level less the passes begun
LevelFallsOnEveryPass ==
  cpc = "level" => mem_level = hardware_api.num_level - level_passes

\* the elements of a sequence
Elements(seq) == {seq[n] : n \in DOMAIN seq}

\* C21: every config EmitConfig returns under a hierarchy of two levels is
\* within the limits: its register use is at most reg_cap[1], its shared-memory
\* use at most smem_cap[0], its threads times its register use at most
\* reg_cap[0], its threads at most 1024; its register use and register-level
\* tiles are those of a tuple of the register-level lists that the
\* register-level filter accepts
ReturnedConfigsWithinLimits ==
  (cpc = "ret" /\ hardware_api.num_level = 2) =>
    \A n \in DOMAIN emitted_configs :
      LET config == emitted_configs[n]
          reg_space == At(config.space_tiles, 1)
          reg_reduce == At(config.reduce_tiles, 1)
          reg_lists == GetAlignedTile([i \in DOMAIN dag.space_extent |-> 1],
                                      [i \in DOMAIN dag.reduce_extent |-> 1], 2)
      IN /\ config.single_thread_reg_usage <= At(hardware_api.reg_cap, 1)
         /\ config.smem_usage <= At(hardware_api.smem_cap, 0)
         /\ config.threads_num * config.single_thread_reg_usage <= At(hardware_api.reg_cap, 0)
         /\ config.threads_num <= ThreadLimit
         /\ \A i \in DOMAIN reg_space : reg_space[i] \in Elements(reg_lists.first[i])
         /\ \A i \in DOMAIN reg_reduce : reg_reduce[i] \in Elements(reg_lists.second[i])
         /\ config.single_thread_reg_usage = MemFootPrint(reg_space, reg_reduce, 2)

\* EmitConfig has returned, under two levels, a config of several hundred
\* threads and one whose threads use more than half of reg_cap[0]
ReturnedNearTheLimits ==
  /\ cpc = "ret" /\ hardware_api.num_level = 2
  /\ \E n \in DOMAIN emitted_configs : 2 * emitted_configs[n].threads_num > ThreadLimit
  /\ \E n \in DOMAIN emitted_configs :
       2 * emitted_configs[n].threads_num * emitted_configs[n].single_thread_reg_usage
         > At(hardware_api.reg_cap, 0)

\* the tuples of the cartesian product of lists, the last list fastest
RECURSIVE OdometerOrder(_)
OdometerOrder(lists) ==
  IF lists = <<>> THEN << <<>> >>
  ELSE LET rest == OdometerOrder(Tail(lists))
       IN [q \in 1..(Len(Head(lists)) * Len(rest)) |->
             <<Head(lists)[((q - 1) \div Len(rest)) + 1]>> \o rest[((q - 1) % Len(rest)) + 1]]

\* ConfigFilter applied to tuples (reduction tiles first) in their order
RECURSIVE FilterAll(_, _, _, _)
FilterAll(tuples, reduce_dims, base_config, passed_so_far) ==
  IF tuples = <<>> THEN passed_so_far
  ELSE LET tuple == Head(tuples)
       IN FilterAll(Tail(tuples), reduce_dims, base_config,
                    ConfigFilter(passed_so_far, base_config,
                                 SubSeq(tuple, reduce_dims + 1, Len(tuple)),
                                 SubSeq(tuple, 1, reduce_dims), mem_level))

\* C27: the enumeration for one base at one level hands no tuple twice, so it
\* ends, with the outermost reduction pointer at its end; what it has appended
\* by then is what ConfigFilter accepts of the cartesian product of the tile
\* lists, taken in odometer order (reduction dimensions slowest, last spatial
\* dimension fastest): every passing tuple once, none skipped
EnumerationIsFilteredProduct ==
  cpc = "enum" =>
    /\ \A m, n \in DOMAIN handed : m # n => handed[m] # handed[n]
    /\ ~HasNextConfig(reduce_ptr, align_tiles.second) =>
         /\ reduce_ptr[1] = Len(align_tiles.second[1]) + 1
         /\ SubSeq(aligned_next, next_at_base + 1, Len(aligned_next))
              = FilterAll(OdometerOrder(align_tiles.second \o align_tiles.first),
                          Len(align_tiles.second), BaseConfig, <<>>)

\* an enumeration over two spatial and reduction lists of several tiles has
\* ended after a rejection, with several configs appended
EnumerationEndedWithSkips ==
  /\ cpc = "enum"
  /\ ~HasNextConfig(reduce_ptr, align_tiles.second)
  /\ Len(align_tiles.first) = 2
  /\ \A i \in DOMAIN align_tiles.first : Len(align_tiles.first[i]) > 1
  /\ Len(align_tiles.second[1]) > 1
  /\ Len(aligned_next) - next_at_base > 2
  /\ Len(handed) > Len(aligned_next) - next_at_base

\* C31: a measured batch of Search ends the while loop early exactly when ct
\* less the trial index of the best result is above early_stopping and the
\* workload has a valid measurement; after that the call enters no further
\* round and calls neither the measurer nor the cost model; a negative
\* early_stopping argument is held as 2^30 - 1 and never ends a loop early
EarlyStoppingEndsSearch ==
  /\ [][(op = "search" /\ pc = "round" /\ ct' > ct) =>
          ((pc' = "after" /\ leftBy' = "early")
             <=> (ct' - best_ct' > early_stopping /\ has_valid'))]_vars
  /\ [][(op = "search" /\ leftBy = "early" /\ op' = "search") =>
          (pc' \notin {"loop", "round"} /\ UNCHANGED ext_calls)]_vars
  /\ [](IntMaxHalf = 2^30 - 1)
  /\ []((op = "search" /\ early_stopping = IntMaxHalf) => leftBy # "early")

\* with early_stopping = 0 the loop was left early by a batch whose last
\* trial was not the best one, after a valid measurement
StoppedEarlyAfterValidResult ==
  /\ op = "search" /\ pc = "after" /\ leftBy = "early"
  /\ early_stopping = 0
  /\ has_valid
  /\ 0 < best_ct /\ best_ct < ct

\* C32: EvolutionarySearch scores and offers to the heap num_iters + 1
\* generations and runs num_iters mutation phases: a mutation phase runs only
\* on a generation that has been scored and is not the terminal one, and it
\* ends, with a next generation of exactly `population` states, by the swap
\* of the two buffers and the clearing of the old one
GenerationsAndMutationPhases ==
  /\ [](epc = "ret" => (generations = num_iters + 1 /\ phases = num_iters))
  /\ [](epc = "score" => generations = phases)
  /\ [](epc = "mutate" =>
          /\ generations = phases + 1
          /\ phases < num_iters
          /\ pnow = [i \in DOMAIN scored |-> scored[i].s])
  /\ [][(epc = "mutate" /\ epc' # "mutate") =>
          /\ Len(pnext) = population
          /\ pnow' = pnext
          /\ pnext' = <<>>
          /\ phases' = phases + 1]_vars

\* a call with num_iters = 1 and population = 2 has returned after a mutation
\* phase in which a rule failed
ReturnedAfterMutationPhase ==
  /\ epc = "ret"
  /\ num_iters = 1 /\ population = 2
  /\ phases = 1
  /\ mutation_fail_ct = 1
  /\ heap # {}

\* C39: every mutation phase of EvolutionarySearch on a non-empty generation
\* ends: after finitely many parent draws the next generation holds
\* `population` states and the next generation is scored, whatever the
\* mutation rules return
MutationPhaseEnds == (epc = "mutate" /\ pnow # <<>>) ~> (epc = "score")

\* C33: a wave of SampleInitPopulation changes the target only when it is the
\* fifth in a row that added nothing to out_states, and then only from a
\* target above 1 to floor(target / 2); a target of 1 or more never falls
\* below 1; unchange_cnt is 0 after a wave that accepted a state and after
\* every fifth unproductive wave, and counts the unproductive waves between
TargetHalvedOnFifthIdleWave ==
  /\ [][(spc = "run" /\ sample_init_min_pop_' # sample_init_min_pop_) =>
          /\ idle_waves = 4 /\ idle_waves' = 0
          /\ Len(out_states') = Len(out_states)
          /\ sample_init_min_pop_ > 1
          /\ 2 * sample_init_min_pop_' <= sample_init_min_pop_
          /\ sample_init_min_pop_ < 2 * sample_init_min_pop_' + 2]_vars
  /\ [][(spc = "run" /\ idle_waves = 4 /\ idle_waves' = 0 /\ sample_init_min_pop_ > 1
           /\ Len(out_states') = Len(out_states)) =>
          sample_init_min_pop_' # sample_init_min_pop_]_vars
  /\ [](min_population >= 1 => sample_init_min_pop_ >= 1)
  /\ [](spc = "run" => unchange_cnt = idle_waves)

\* a call has halved the target 3 to 1 at its fifth unproductive wave after
\* a wave that accepted a state
HalvedAfterAcceptance ==
  /\ spc = "run"
  /\ min_population = 3 /\ sample_init_min_pop_ = 1
  /\ shrunk
  /\ Len(out_states) = 1
  /\ unchange_cnt = 0

\* C40: over the calls of SampleInitPopulation on one policy the target
\* sample_init_min_pop_ never increases: no step raises it, the entry of a
\* call leaves it as the call before left it, and once below the configured
\* min_population it stays below
TargetNeverRestored ==
  /\ [][sample_init_min_pop_' <= sample_init_min_pop_]_vars
  /\ [][(spc # "run" /\ spc' = "run") =>
          sample_init_min_pop_' = sample_init_min_pop_]_vars
  /\ [][sample_init_min_pop_ < min_population =>
          sample_init_min_pop_' < min_population']_vars

\* a call that has not reduced the target runs with the target an earlier
\* call halved
LaterCallRunsWithHalvedTarget ==
  /\ spc = "run"
  /\ ~shrunk
  /\ min_population = 3 /\ sample_init_min_pop_ = 1
  /\ Len(out_states) = 0

\* --------------------------------------------- the rule loop of GenerateSketches
\* the rules that are consulted for a state at a stage: those with no rule
\* before them that answered apply-and-skip-rest
Consulted(state, stage_id) ==
  {r \in 1..Len(sketch_rules) :
     \A q \in 1..(r - 1) : MeetCondition(q, state, stage_id) # "kApplyAndSkipRest"}

\* what rule r contributes for a state at a stage
Contribution(state, stage_id, r) ==
  IF r \in Consulted(state, stage_id) /\ MeetCondition(r, state, stage_id) # "kSkip"
  THEN Apply(r, state, stage_id)
  ELSE <<>>

\* the (state, cursor) pairs the frontier `now` contributes under the cursors
\* of `map`, entry by entry and rule by rule
Contributions(now, map) ==
  Flat([i \in 1..Len(now) |->
          IF map[now[i].obj] < 0 THEN <<>>
          ELSE Flat([r \in 1..Len(sketch_rules) |->
                       Contribution(now[i], map[now[i].obj], r)])])

NoObjectTwice(now) == \A p \in Pairs(now) : now[p[1]].obj # now[p[2]].obj

BeforeRfactor(steps, s) ==
  /\ s < Len(steps)
  /\ steps[s].kind = "split"
  /\ steps[s + 1].kind = "rfactor"

\* C35: in every sketch GenerateSketches has returned, a split step followed
\* at once by a reduction-factor step has the one factor NullOpt; when the call
\* returns, the output holds the states it held when the loop was left, in
\* their order, each with as many steps as before; a split before a
\* reduction-factor step keeps stage_id, iter_id, extent and inner_to_outer,
\* and every other step is what it was.
PostPassClearsRfactorSplits ==
  /\ [](gpc = "ret" =>
          \A i \in 1..Len(sketches) : \A s \in 1..Len(sketches[i].transform_steps) :
            BeforeRfactor(sketches[i].transform_steps, s) =>
              sketches[i].transform_steps[s].lengths = <<"NullOpt">>)
  /\ [][(gpc = "run" /\ gpc' = "ret") =>
          /\ Len(sketches') = Len(sketches)
          /\ \A i \in 1..Len(sketches) :
               LET before == sketches[i].transform_steps
                   after == sketches'[i].transform_steps
               IN  /\ sketches'[i].obj = sketches[i].obj
                   /\ sketches'[i].path = sketches[i].path
                   /\ Len(after) = Len(before)
                   /\ \A s \in 1..Len(before) :
                        IF BeforeRfactor(before, s)
                        THEN /\ after[s].kind = "split"
                             /\ after[s].stage_id = before[s].stage_id
                             /\ after[s].iter_id = before[s].iter_id
                             /\ after[s].extent = before[s].extent
                             /\ after[s].inner_to_outer = before[s].inner_to_outer
                        ELSE after[s] = before[s]]_vars

\* a call has returned two sketches of two steps and more, each with a
\* reduction-factor step after a step of another rule
ReturnedWithRfactorAndOtherSteps ==
  /\ gpc = "ret"
  /\ Len(sketches) >= 2
  /\ \A i \in 1..Len(sketches) :
       LET steps == sketches[i].transform_steps IN
         /\ Len(steps) >= 3
         /\ steps[1].kind = "other"
         /\ \E s \in 2..Len(steps) : BeforeRfactor(steps, s)

\* ------------------------------------------------- what the filters return
\* out_c and out_s are the entries of in_c and in_s at the positions of keep,
\* position by position from the lowest up
KeptInOrder(in_c, in_s, out_c, out_s, keep) ==
  /\ Len(out_c) = Len(out_s)
  /\ Len(out_c) = Cardinality(keep)
  /\ \A i \in keep :
       LET n == Cardinality({j \in keep : j <= i}) IN
         /\ out_c[n] = in_c[i]
         /\ out_s[n] = in_s[i]

\* C36: what ThreadsNumberFilter, RegisterLaunchBoundsFilter,
\* SharedMemoryLaunchBoundsFilter and PaddingFilter return is the pairs of
\* their input that pass the filter's test, in the order of the input: two
\* lists of one length, each config with the state of its input position.
FiltersKeepPairsInOrder ==
  /\ [][(fpc = "off" /\ fpc' = "inst") =>
          KeptInOrder([i \in 1..Len(emitted) |-> emitted[i].config],
                      [i \in 1..Len(emitted) |-> emitted[i].state],
                      configs', cand_states',
                      {i \in 1..Len(emitted) : ThreadsValid(emitted[i].config)})]_vars
  /\ [][(fpc = "reg" /\ fpc' = "smem") =>
          KeptInOrder(inst_cand_configs, inst_cand_states, inst_cand_configs', inst_cand_states',
                      {i \in 1..Len(inst_cand_configs) :
                         RegisterValid(inst_cand_configs[i], inst_cand_states[i],
                                       SchBase(inst_cand_states))})]_vars
  /\ [][(fpc = "smem" /\ fpc' = "pad") =>
          KeptInOrder(inst_cand_configs, inst_cand_states, inst_cand_configs', inst_cand_states',
                      {i \in 1..Len(inst_cand_configs) :
                         SharedMemoryValid(inst_cand_configs[i], inst_cand_states[i])})]_vars
  /\ [][(fpc = "pad" /\ fpc' = "sci") =>
          \E tie \in BOOLEAN :
            KeptInOrder(inst_cand_configs, inst_cand_states, inst_cand_configs', inst_cand_states',
                        {i \in 1..Len(inst_cand_states) :
                           Exceeds(PaddingPenalty(inst_cand_states[i]),
                                   padding_penalty_threshold, tie)})]_vars

\* PaddingFilter has returned all but one candidate from the middle of its
\* input, after each of the three filters before it had rejected another
\* candidate of the list
EachFilterRejectedOne ==
  /\ fpc = "sci"
  /\ Len(emitted) = MaxKeepCands
  /\ Len(filter_in_configs) = MaxKeepCands - 3
  /\ Len(inst_cand_configs) = MaxKeepCands - 4
  /\ \E i \in 2..(Len(filter_in_states) - 1) : PaddingPenalty(filter_in_states[i]) = <<3, 4>>

\* the number of pairs of two lists that are the given pair
CountOf(list_c, list_s, config, state) ==
  Cardinality({i \in 1..Len(list_c) : list_c[i] = config /\ list_s[i] = state})

\* out_c and out_s are `keep` pairs of in_c and in_s, or all of them when they
\* are fewer: none more often than the input has it, the ratios of the level
\* never increasing, and every input ratio above the last one returned is
\* returned as often as the input has it
LargestByRatio(in_c, in_s, out_c, out_s, level, keep) ==
  /\ Len(out_c) = Min(keep, Len(in_c))
  /\ Len(out_s) = Len(out_c)
  /\ \A n \in 1..Len(out_c) :
       CountOf(out_c, out_s, out_c[n], out_s[n]) <= CountOf(in_c, in_s, out_c[n], out_s[n])
  /\ \A n \in 1..(Len(out_c) - 1) :
       out_c[n].compute_intensive_ratio[level] >= out_c[n + 1].compute_intensive_ratio[level]
  /\ \A i \in 1..Len(in_c) :
       LET ratio == in_c[i].compute_intensive_ratio[level] IN
         (out_c # <<>> /\ ratio > out_c[Len(out_c)].compute_intensive_ratio[level]) =>
           Cardinality({j \in 1..Len(in_c) : in_c[j].compute_intensive_ratio[level] = ratio})
             = Cardinality({n \in 1..Len(out_c) : out_c[n].compute_intensive_ratio[level] = ratio})

\* C37: SharedMemoryComputeIntensiveFilter returns min(20, n) of its n input
\* pairs and RegComputeIntensiveFilter min(10, n): the pairs whose configs have
\* the largest compute_intensive_ratio[0], respectively [1], in descending
\* order of that ratio, each config with the state of its input position.
ComputeIntensiveFiltersKeepLargest ==
  /\ [][(fpc = "sci" /\ fpc' = "rci") =>
          LargestByRatio(inst_cand_configs, inst_cand_states,
                         inst_cand_configs', inst_cand_states', 1, 20)]_vars
  /\ [][(fpc = "rci" /\ fpc' = "store") =>
          LargestByRatio(inst_cand_configs, inst_cand_states,
                         inst_cand_configs', inst_cand_states', 2, 10)]_vars

\* RegComputeIntensiveFilter has returned 10 of the 20 pairs that
\* SharedMemoryComputeIntensiveFilter had kept of more; a pair that had passed
\* every filter before was left out of the 20 with the ratio of one that was
\* kept
TenOfTwentyAfterTieAtTheCut ==
  /\ fpc = "store"
  /\ Len(configs) > SmemKeep
  /\ Len(filter_in_configs) = SmemKeep
  /\ Len(inst_cand_configs) = RegKeep
  /\ \E i \in 1..Len(configs) :
       /\ configs[i].single_thread_reg_usage = 16
       /\ configs[i].smem_usage = 16
       /\ PaddingPenalty(cand_states[i]) = <<4, 4>>
       /\ \A n \in 1..SmemKeep : filter_in_configs[n] # configs[i]
       /\ \E n \in 1..SmemKeep :
            filter_in_configs[n].compute_intensive_ratio[1] = configs[i].compute_intensive_ratio[1]

\* ------------------------------------------- the selection of EfficientSearch
\* the pool indices (from 0) of the highest adapted score of an instance
BestFor(inst) ==
  {sid \in 0..(Len(measured_states_vector_) - 1) :
     \A o \in 0..(Len(measured_states_vector_) - 1) :
       state_score[<<inst, o>>] <= state_score[<<inst, sid>>]}

\* C38: when EfficientSearch has returned, the state given to each instance is
\* the state of the measured pool at the lowest index among those with the
\* highest adapted score of that instance, over the whole pool and whatever the
\* other instances are given.
EffSelectsHighestAdaptedScore ==
  (op = "eff" /\ pc = "ret") =>
    \A inst \in WklInsts :
      \E sid \in BestFor(inst) :
        /\ \A o \in BestFor(inst) : sid <= o
        /\ ret_states[ret_map[inst] + 1] = measured_states_vector_[sid + 1]

\* EfficientSearch has returned on a pool of three different states: one
\* instance has its highest score at the last index only, the other has it at
\* the last two, and they are given different states
EffTieGoesToLowerIndex ==
  /\ op = "eff" /\ pc = "ret"
  /\ num_insts = 2
  /\ Len(measured_states_vector_) = 3
  /\ Cardinality(Range(measured_states_vector_)) = 3
  /\ BestFor(0) = {2}
  /\ BestFor(1) = {1, 2}
  /\ ret_states[ret_map[0] + 1] = measured_states_vector_[3]
  /\ ret_states[ret_map[1] + 1] = measured_states_vector_[2]

=============================================================================
